---- MODULE Spec2Model ----
(***************************************************************************)
(* Player statistics of the capture server (src/server/player.go):         *)
(*   - processPlayerEvents: the streaming decoder and per-capture          *)
(*     aggregator of one capture document;                                 *)
(*   - processAllPlayerEvents: the concurrent archive pipeline (one        *)
(*     goroutine per file, a semaphore of runtime.NumCPU() slots, a merge  *)
(*     map guarded by a mutex, a WaitGroup barrier);                       *)
(*   - PlayerCache: the lazily built, invalidatable cache behind a         *)
(*     sync.RWMutex.                                                       *)
(* Specifications:                                                         *)
(*   Spec          the cache under concurrent readers and an invalidator   *)
(*   SpecPipeline  one run of processAllPlayerEvents                       *)
(***************************************************************************)
EXTENDS Integers, Sequences, FiniteSets, TLC

(***************************************************************************)
(* Bounds of the model.                                                    *)
(***************************************************************************)
\* Capture files matched by the glob in one pipeline run.
NumFiles == 3
\* runtime.NumCPU(): the capacity of the semaphore channel.
NumCPU == 2
\* Calls each reader goroutine makes to GetAll / GetByName.
MaxCalls == 1
\* Calls the invalidating goroutine makes to Invalidate.
MaxInvalidations == 1
\* The events of a capture processPlayerEvents is run on.
MaxEvents == 2
\* Capture files of a directory whose captures hold same-named players.
NumTwinFiles == 2

(***************************************************************************)
(* Strings.  A Go string is a sequence of one-character strings, so that   *)
(* strings.ToLower and strings.Contains are computed, not tabulated.       *)
(***************************************************************************)
UpperChars == <<"A", "B", "G", "O">>
LowerChars == <<"a", "b", "g", "o">>

\* unicode.ToLower on one character of the alphabet used here.
LowerChar(c) ==
  IF \E i \in 1..Len(UpperChars) : UpperChars[i] = c
    THEN LowerChars[CHOOSE i \in 1..Len(UpperChars) : UpperChars[i] = c]
    ELSE c

\* strings.ToLower
ToLower(s) == [i \in 1..Len(s) |-> LowerChar(s[i])]

\* strings.Contains(s, sub): sub occurs in s as a contiguous run.
Contains(s, sub) ==
  \E off \in 0..(Len(s) - Len(sub)) :
    \A i \in 1..Len(sub) : s[off + i] = sub[i]

\* strings.TrimSuffix(s, suffix)
TrimSuffix(s, suffix) ==
  IF Len(s) >= Len(suffix)
     /\ \A i \in 1..Len(suffix) : s[Len(s) - Len(suffix) + i] = suffix[i]
    THEN SubSeq(s, 1, Len(s) - Len(suffix))
    ELSE s

\* Player names occurring in the capture documents of the model.
Bob == <<"B", "o", "b">>
BobLower == <<"b", "o", "b">>
Bobby == <<"B", "o", "b", "b", "y">>

(***************************************************************************)
(* JSON values as the decoder sees them (json.RawMessage).  One record     *)
(* shape for every kind, so that values of different kinds compare.        *)
(***************************************************************************)
JNum(n) == [k |-> "num", n |-> n, s |-> "", a |-> <<>>]
JStr(s) == [k |-> "str", n |-> 0, s |-> s, a |-> <<>>]
JArr(a) == [k |-> "arr", n |-> 0, s |-> "", a |-> a]
JObj == [k |-> "obj", n |-> 0, s |-> "", a |-> <<>>]
JNull == [k |-> "null", n |-> 0, s |-> "", a |-> <<>>]

\* json.Unmarshal(raw, &string): a JSON string is stored, null leaves the
\* target as it was, anything else is an UnmarshalTypeError.
UnmarshalString(raw, old) ==
  CASE raw.k = "str" -> [err |-> FALSE, val |-> raw.s]
    [] raw.k = "null" -> [err |-> FALSE, val |-> old]
    [] OTHER -> [err |-> TRUE, val |-> old]

\* json.Unmarshal(raw, &int)
UnmarshalInt(raw, old) ==
  CASE raw.k = "num" -> [err |-> FALSE, val |-> raw.n]
    [] raw.k = "null" -> [err |-> FALSE, val |-> old]
    [] OTHER -> [err |-> TRUE, val |-> old]

\* json.Unmarshal(raw, &[]json.RawMessage): null yields the nil slice.
UnmarshalArray(raw) ==
  CASE raw.k = "arr" -> [err |-> FALSE, val |-> raw.a]
    [] raw.k = "null" -> [err |-> FALSE, val |-> <<>>]
    [] OTHER -> [err |-> TRUE, val |-> <<>>]

(***************************************************************************)
(* Go maps are functions whose domain grows.                               *)
(***************************************************************************)
EmptyMap == <<>>

\* m[key] += n, where a missing key reads as zero.
MapAdd(m, key, n) ==
  IF key \in DOMAIN m
    THEN [m EXCEPT ![key] = @ + n]
    ELSE [x \in DOMAIN m \cup {key} |-> IF x = key THEN n ELSE m[x]]

\* m[key] = v
MapPut(m, key, v) ==
  [x \in DOMAIN m \cup {key} |-> IF x = key THEN v ELSE m[x]]

RECURSIVE SumOver(_, _)
\* The sum of f[x] over the keys x in S.
SumOver(f, S) ==
  IF S = {} THEN 0
  ELSE LET x == CHOOSE y \in S : TRUE
       IN f[x] + SumOver(f, S \ {x})

\* The sum of the values of a map.
MapSum(m) == SumOver(m, DOMAIN m)

\* All orders in which the elements of the finite set S can be listed.
RECURSIVE Perms(_)
Perms(S) ==
  IF S = {} THEN {<<>>}
  ELSE UNION { { <<x>> \o p : p \in Perms(S \ {x}) } : x \in S }

(***************************************************************************)
(* processPlayerEvents: the per-capture aggregator (player.go 57-211).     *)
(*                                                                         *)
(* A capture document is [readable, top, fields, cut]: readable is FALSE   *)
(* when the file cannot be opened, is no gzip stream or holds no first     *)
(* token; top is the kind of the top-level value ("object", "array" whose  *)
(* elements are keys and values in turn, "scalar"); fields is the sequence *)
(* of top-level members in document order, each [key, ents, evts]; cut is  *)
(* where the stream ends: "none" after the closing delimiter, "member"     *)
(* after the value of the last member of fields (after the opening         *)
(* delimiter if there is none), "key" after the comma that follows it or   *)
(* inside the next key, "value" inside the value of the last member, after *)
(* the items of fields.  An entity is [decodes, type, id, name, side,        *)
(* isPlayer, positions]; decodes is FALSE when a field holds a value of    *)
(* another type, so that dec.Decode(&e) returns an error; positions is the *)
(* member captureEntityMeta has no field for.  An event is a JSON value.   *)
(***************************************************************************)
Entity(type, id, name, side, isPlayer) ==
  [decodes |-> TRUE, type |-> type, id |-> id, name |-> name,
   side |-> side, isPlayer |-> isPlayer, positions |-> <<>>]

\* [frameNum, "killed", victimId, [causedById, weapon], distance]
KilledEvent(victim, killer, weapon) ==
  JArr(<<JNum(10), JStr("killed"), JNum(victim),
         JArr(<<JNum(killer), weapon>>), JNum(50)>>)

\* The playerAcc a player entity is entered with.
NewPlayerAcc(e) ==
  [ID |-> e.id, Name |-> e.name, Side |-> e.side,
   KillCount |-> 0, DeathCount |-> 0, TeamKillCount |-> 0,
   weaponMap |-> EmptyMap]

\* Every unit entered, whatever its isPlayer.
AddUnit(playerMap, e) ==
  IF e.type # "unit"
    THEN playerMap
    ELSE MapPut(playerMap, e.id, NewPlayerAcc(e))

\* One iteration of the entities loop, after a successful Decode.
AddEntity(playerMap, e) ==
  IF e.type # "unit" \/ e.isPlayer # 1
    THEN playerMap
    ELSE MapPut(playerMap, e.id, NewPlayerAcc(e))

\* A weapon declared without its default and not reset on an error.
WeaponNameOrZero(raw) ==
  LET weapon == UnmarshalString(raw, "")
  IN weapon.val

\* Lines 157-160: weapon := "N/A"; Unmarshal into it; "N/A" again on error.
WeaponName(raw) ==
  LET weapon == UnmarshalString(raw, "N/A")
  IN IF weapon.err THEN "N/A" ELSE weapon.val

NoKill == [kill |-> FALSE, victimID |-> 0, killerID |-> 0, weapon |-> "N/A"]

\* A decoding that goes on with the zero value where the victim id or the
\* causer id does not decode.
DecodeKillLenient(rawEvent) ==
  IF Len(rawEvent) < 4 THEN NoKill
  ELSE
    LET eventType == UnmarshalString(rawEvent[2], "")
        victimID == UnmarshalInt(rawEvent[3], 0)
        causedByInfo == UnmarshalArray(rawEvent[4])
    IN
      IF eventType.err \/ eventType.val # "killed" THEN NoKill
      ELSE IF causedByInfo.err \/ Len(causedByInfo.val) < 2 THEN NoKill
      ELSE [kill |-> TRUE, victimID |-> victimID.val,
            killerID |-> UnmarshalInt(causedByInfo.val[1], 0).val,
            weapon |-> WeaponName(causedByInfo.val[2])]

\* The decoding of one raw event; kill is FALSE where the code `continue`s.
DecodeKill(rawEvent) ==
  IF Len(rawEvent) < 4 THEN NoKill
  ELSE
    LET eventType == UnmarshalString(rawEvent[2], "")
        victimID == UnmarshalInt(rawEvent[3], 0)
        causedByInfo == UnmarshalArray(rawEvent[4])
    IN
      IF eventType.err \/ eventType.val # "killed" THEN NoKill
      ELSE IF victimID.err THEN NoKill
      ELSE IF causedByInfo.err \/ Len(causedByInfo.val) < 2 THEN NoKill
      ELSE
        LET killerID == UnmarshalInt(causedByInfo.val[1], 0)
        IN
          IF killerID.err THEN NoKill
          ELSE [kill |-> TRUE, victimID |-> victimID.val,
                killerID |-> killerID.val,
                weapon |-> WeaponName(causedByInfo.val[2])]

\* A kill counted without its weapon entry.
CountKillOnly(acc, weapon) ==
  [acc EXCEPT !.KillCount = @ + 1]

\* killer.KillCount++ ; killer.weaponMap[weapon]++
CountKill(acc, weapon) ==
  [acc EXCEPT !.KillCount = @ + 1, !.weaponMap = MapAdd(@, weapon, 1)]

\* A team kill wherever both are players, whatever their sides.
AnyKillOfPlayer(playerMap, ev) ==
  /\ ev.victimID \in DOMAIN playerMap
  /\ ev.killerID # ev.victimID

\* A team kill wherever the sides are equal, the killer's own included.
SameSideKill(playerMap, ev) ==
  /\ ev.victimID \in DOMAIN playerMap
  /\ playerMap[ev.killerID].Side = playerMap[ev.victimID].Side

\* Line 169, for a killer that is a player: victimIsPlayer && killerID !=
\* victimID && killer.Side == victim.Side.
IsTeamKill(playerMap, ev) ==
  /\ ev.victimID \in DOMAIN playerMap
  /\ ev.killerID # ev.victimID
  /\ playerMap[ev.killerID].Side = playerMap[ev.victimID].Side

\* A death that is not counted.
NoDeath(acc) == acc

\* Line 175: victim.DeathCount++
CountDeath(acc) == [acc EXCEPT !.DeathCount = @ + 1]

\* The counters of one decoded kill, in the order of the code: the killer's
\* kill and weapon, the team kill, then the victim's death.
ApplyKill(playerMap, ev) ==
  LET killerIsPlayer == ev.killerID \in DOMAIN playerMap
      victimIsPlayer == ev.victimID \in DOMAIN playerMap
      pm1 == IF killerIsPlayer
               THEN [playerMap EXCEPT
                       ![ev.killerID] = CountKill(@, ev.weapon)]
               ELSE playerMap
      pm2 == IF killerIsPlayer /\ IsTeamKill(pm1, ev)
               THEN [pm1 EXCEPT ![ev.killerID].TeamKillCount = @ + 1]
               ELSE pm1
  IN IF victimIsPlayer
       THEN [pm2 EXCEPT ![ev.victimID] = CountDeath(@)]
       ELSE pm2

\* One iteration of the events loop, after a successful Decode.
ApplyEvent(playerMap, rawEvent) ==
  LET ev == DecodeKill(rawEvent)
  IN IF ev.kill THEN ApplyKill(playerMap, ev) ELSE playerMap

RECURSIVE ReadEntities(_, _)
\* The entities loop: an entity that does not decode fails the file.
ReadEntities(playerMap, ents) ==
  IF ents = <<>> THEN [err |-> FALSE, pm |-> playerMap]
  ELSE IF ~Head(ents).decodes THEN [err |-> TRUE, pm |-> playerMap]
  ELSE ReadEntities(AddEntity(playerMap, Head(ents)), Tail(ents))

RECURSIVE ReadEvents(_, _)
\* The events loop: an event that is no array (and not null) fails the file.
ReadEvents(playerMap, evts) ==
  IF evts = <<>> THEN [err |-> FALSE, pm |-> playerMap]
  ELSE LET rawEvent == UnmarshalArray(Head(evts))
       IN IF rawEvent.err THEN [err |-> TRUE, pm |-> playerMap]
          ELSE ReadEvents(ApplyEvent(playerMap, rawEvent.val), Tail(evts))

RECURSIVE ReadFields(_, _)
\* The loop over the top-level keys, in document order.
ReadFields(playerMap, fields) ==
  IF fields = <<>> THEN [err |-> FALSE, pm |-> playerMap]
  ELSE
    LET f == Head(fields)
        r == CASE f.key = "entities" -> ReadEntities(playerMap, f.ents)
               [] f.key = "events" -> ReadEvents(playerMap, f.evts)
               [] OTHER -> [err |-> FALSE, pm |-> playerMap]
    IN IF r.err THEN r ELSE ReadFields(r.pm, Tail(fields))

\* dec.More() of the loop over the top-level keys (line 83) where the
\* members of the stream are used up: false at the closing delimiter, and
\* false as well where the stream ends, since More reports no error; true
\* where a comma or a part of a key is left to read.
MoreAtEnd(doc) == doc.cut = "key"

\* The player map at the end of the decoding loop, or the error: of the
\* first token, of a record, or of the token the stream ends in.
DecodeCapture(doc) ==
  IF ~doc.readable THEN [err |-> TRUE, pm |-> EmptyMap]
  ELSE LET r == ReadFields(EmptyMap, doc.fields)
       IN IF r.err THEN r
          ELSE IF (doc.cut = "value" /\ doc.fields # <<>>) \/ MoreAtEnd(doc)
            THEN [err |-> TRUE, pm |-> r.pm]
          ELSE r

(***************************************************************************)
(* Collecting a map of accumulators into the sorted output list.  The map  *)
(* is ranged over in an unspecified order and sort.Slice is not stable:    *)
(* every list that is sorted by the key is a possible output.              *)
(***************************************************************************)
\* ws is an outcome of sort.Slice(ws, ws[i].Kills > ws[j].Kills).
SortedByKills(ws) ==
  \A i \in 1..(Len(ws) - 1) : ws[i].Kills >= ws[i + 1].Kills

\* A list left in the order the map was ranged over.
AsCollected(l) == TRUE

\* l is an outcome of sort.Slice(l, l[i].KillCount > l[j].KillCount).
SortedByKillCount(l) ==
  \A i \in 1..(Len(l) - 1) : l[i].KillCount >= l[i + 1].KillCount

\* ws sorted by Kills descending, one entry per weapon of the map.
WeaponStatLists(weaponMap) ==
  { ws \in { [i \in 1..Len(p) |-> [Weapon |-> p[i], Kills |-> weaponMap[p[i]]]] :
               p \in Perms(DOMAIN weaponMap) } :
      SortedByKills(ws) }

Summary(acc, ws) ==
  [ID |-> acc.ID, Name |-> acc.Name, Side |-> acc.Side,
   KillCount |-> acc.KillCount, DeathCount |-> acc.DeathCount,
   TeamKillCount |-> acc.TeamKillCount, WeaponStats |-> ws]

\* Every output list of a map of accumulators: one summary per key, its
\* WeaponStats sorted, the list sorted by KillCount descending.
SortedSummaries(accs) ==
  LET choices == { ws \in [DOMAIN accs ->
                             UNION { WeaponStatLists(accs[x].weaponMap) :
                                       x \in DOMAIN accs }] :
                     \A x \in DOMAIN accs :
                       ws[x] \in WeaponStatLists(accs[x].weaponMap) }
      lists == { [i \in 1..Len(p) |-> Summary(accs[p[i]], ws[p[i]])] :
                   p \in Perms(DOMAIN accs), ws \in choices }
  IN { l \in lists : SortedByKillCount(l) }

\* processPlayerEvents(path): the error, or one of the possible lists.
ProcessPlayerEvents(doc) ==
  LET d == DecodeCapture(doc)
  IN IF d.err THEN { [err |-> TRUE, players |-> <<>>] }
     ELSE { [err |-> FALSE, players |-> l] : l \in SortedSummaries(d.pm) }

(***************************************************************************)
(* The buffered processPlayerEvents (player.go 552-675): the document is   *)
(* decoded whole into captureData, then the entities and the events are    *)
(* walked.                                                                 *)
(***************************************************************************)
RECURSIVE LastOverride(_, _)
\* player.go 577-588, the resolution of the buffered processPlayerEvents:
\* the positions are walked from the last to the first and the first name
\* slot that parses as a non-empty string is the display name; e.Name if
\* there is none.
LastOverride(e, i) ==
  IF i < 1 THEN e.name
  ELSE LET entry == e.positions[i].a
           name == UnmarshalString(entry[5], <<>>)
       IN IF Len(entry) >= 5 /\ ~name.err /\ name.val # <<>>
            THEN name.val
            ELSE LastOverride(e, i - 1)

DisplayName(e) == LastOverride(e, Len(e.positions))

RECURSIVE LastMember(_, _)
\* The member of fields with the key given that is last in the document (a
\* repeated key decodes over the earlier value), or none.
LastMember(fields, key) ==
  IF fields = <<>> THEN [key |-> key, ents |-> <<>>, evts |-> <<>>]
  ELSE IF fields[Len(fields)].key = key THEN fields[Len(fields)]
  ELSE LastMember(SubSeq(fields, 1, Len(fields) - 1), key)

\* Line 566, json.NewDecoder(gz).Decode(&data) returns no error: the stream
\* holds a whole object, every entity and every position entry has the
\* types of captureEntity, and every event is an array or null.
BufferedDecodes(doc) ==
  /\ doc.readable
  /\ doc.top = "object"
  /\ doc.cut = "none"
  /\ \A f \in 1..Len(doc.fields) :
       /\ doc.fields[f].key = "entities" =>
            \A i \in 1..Len(doc.fields[f].ents) :
              /\ doc.fields[f].ents[i].decodes
              /\ \A j \in 1..Len(doc.fields[f].ents[i].positions) :
                   ~UnmarshalArray(doc.fields[f].ents[i].positions[j]).err
       /\ doc.fields[f].key = "events" =>
            \A i \in 1..Len(doc.fields[f].evts) :
              ~UnmarshalArray(doc.fields[f].evts[i]).err

\* Lines 572-596: one iteration of the loop over data.Entities.
AddResolved(playerMap, e) ==
  IF e.type # "unit" \/ e.isPlayer # 1
    THEN playerMap
    ELSE MapPut(playerMap, e.id,
                [NewPlayerAcc(e) EXCEPT !.Name = DisplayName(e)])

RECURSIVE ResolveEntities(_, _)
\* Lines 571-596: the player map of data.Entities.
ResolveEntities(playerMap, ents) ==
  IF ents = <<>> THEN playerMap
  ELSE ResolveEntities(AddResolved(playerMap, Head(ents)), Tail(ents))

RECURSIVE WalkEvents(_, _)
\* Lines 599-658: the loop over data.Events, whose body counts a kill as
\* lines 133-176 do.
WalkEvents(playerMap, evts) ==
  IF evts = <<>> THEN playerMap
  ELSE WalkEvents(ApplyEvent(playerMap, UnmarshalArray(Head(evts)).val),
                  Tail(evts))

\* The player map of the buffered processPlayerEvents, or its error.
BufferedCapture(doc) ==
  IF ~BufferedDecodes(doc) THEN [err |-> TRUE, pm |-> EmptyMap]
  ELSE [err |-> FALSE,
        pm |-> WalkEvents(
                 ResolveEntities(EmptyMap,
                                 LastMember(doc.fields, "entities").ents),
                 LastMember(doc.fields, "events").evts)]

(***************************************************************************)
(* The capture documents of the model.                                     *)
(***************************************************************************)
Doc(ents, evts) ==
  [readable |-> TRUE, top |-> "object", cut |-> "none",
   fields |-> << [key |-> "worldName", ents |-> <<>>, evts |-> <<>>],
                 [key |-> "entities", ents |-> ents, evts |-> <<>>],
                 [key |-> "events", ents |-> <<>>, evts |-> evts] >>]

\* Bob (WEST) kills Bobby (EAST) twice with a rifle; a vehicle and an event
\* of another type are present.
DocA ==
  Doc(<< Entity("unit", 1, Bob, "WEST", 1),
         Entity("unit", 2, Bobby, "EAST", 1),
         Entity("vehicle", 3, Bob, "WEST", 0) >>,
      << KilledEvent(2, 1, JStr("Rifle")),
         JArr(<<JNum(11), JStr("hit"), JNum(2), JArr(<<JNum(1), JStr("Rifle")>>)>>),
         KilledEvent(2, 1, JStr("Rifle")) >>)

\* Bob has another id and side here: a team kill, a self-kill whose weapon is
\* no string, a kill of an unknown victim whose weapon is null, a death by an
\* unknown causer.
DocB ==
  Doc(<< Entity("unit", 1, BobLower, "EAST", 1),
         Entity("unit", 2, Bob, "EAST", 1) >>,
      << KilledEvent(1, 2, JStr("Pistol")),
         KilledEvent(2, 2, JNum(7)),
         KilledEvent(9, 2, JNull),
         KilledEvent(2, 9, JStr("Rifle")) >>)

\* Bob and Bobby with their ids exchanged, on one side: a single team kill.
DocC ==
  Doc(<< Entity("unit", 2, Bob, "EAST", 1),
         Entity("unit", 1, Bobby, "EAST", 1) >>,
      << KilledEvent(1, 2, JStr("Pistol")) >>)

\* Two players named Bob, with different ids and sides, and a player named
\* bob: the first Bob kills the second.
DocTwin ==
  Doc(<< Entity("unit", 1, Bob, "WEST", 1),
         Entity("unit", 2, Bob, "EAST", 1),
         Entity("unit", 3, BobLower, "EAST", 1) >>,
      << KilledEvent(2, 1, JStr("Rifle")) >>)

\* A file that cannot be read as a capture.
DocBad ==
  [readable |-> FALSE, top |-> "object", cut |-> "none", fields |-> <<>>]

\* The capture a file of the data directory holds: what os.Open and the
\* gzip reader deliver for its path.  A file is kept in the state with the
\* name of its capture.
Content(id) ==
  CASE id = "DocA" -> DocA
    [] id = "DocB" -> DocB
    [] id = "DocC" -> DocC
    [] id = "DocTwin" -> DocTwin
    [] OTHER -> DocBad

\* What processPlayerEvents(path) can return for a file holding the capture
\* of each name.
ResultsOf ==
  [DocA |-> ProcessPlayerEvents(Content("DocA")),
   DocB |-> ProcessPlayerEvents(Content("DocB")),
   DocC |-> ProcessPlayerEvents(Content("DocC")),
   DocTwin |-> ProcessPlayerEvents(Content("DocTwin")),
   DocBad |-> ProcessPlayerEvents(Content("DocBad"))]

\* The captures of a directory whose files hold same-named players.
TwinDocs == {"DocTwin", "DocBad"}

PipelineDocs == {"DocA", "DocB", "DocBad"}

GzSuffix == <<".", "g", "z">>
FileStems == <<"A", "B", "G", "O", "a", "b", "g", "o">>

\* The i-th path of the data directory, in the sorted order Glob returns.
FileName(i) == <<FileStems[i]>> \o GzSuffix

\* An entry of the data directory whose name does not end in ".gz".
OtherEntry == [name |-> <<"A", ".", "g", "z", "o">>, doc |-> "DocA"]

\* The data directory holding the capture files fs and that entry, in the
\* order of their names.
Listing(fs) ==
  IF fs = <<>> THEN <<OtherEntry>> ELSE <<Head(fs), OtherEntry>> \o Tail(fs)

\* strings.HasSuffix(s, suffix)
HasSuffix(s, suffix) ==
  /\ Len(s) >= Len(suffix)
  /\ SubSeq(s, Len(s) - Len(suffix) + 1, Len(s)) = suffix

\* filepath.Glob(filepath.Join(dataDir, "*.gz")), line 218: the entries
\* whose name ends in ".gz", sorted by name.
Glob(dir) == SelectSeq(dir, LAMBDA e : HasSuffix(e.name, GzSuffix))

\* The blacklists the cache is constructed with: none, and one of an
\* upper-case and a lower-case fragment.
Blacklists == { <<>>, << <<"G">>, <<"a">> >> }

(***************************************************************************)
(* processAllPlayerEvents (player.go 217-326).                             *)
(***************************************************************************)
\* A filter matching the fragments as they are written.
FilterFilesExact(allFiles, bl) ==
  LET excluded(f) ==
        \E b \in 1..Len(bl) : Contains(TrimSuffix(f.name, GzSuffix), bl[b])
  IN SelectSeq(allFiles, LAMBDA f : ~excluded(f))

\* The filter of lines 224-237: the paths whose lowercased base name
\* without .gz contains no lowercased blacklist fragment, in their order.
FilterFiles(allFiles, bl) ==
  LET excluded(f) ==
        \E b \in 1..Len(bl) :
          Contains(ToLower(TrimSuffix(f.name, GzSuffix)), ToLower(bl[b]))
  IN SelectSeq(allFiles, LAMBDA f : ~excluded(f))

RECURSIVE WeaponMapOf(_, _)
\* wm[ws.Weapon] = ws.Kills over the WeaponStats of a record, in order.
WeaponMapOf(wm, stats) ==
  IF stats = <<>> THEN wm
  ELSE WeaponMapOf(MapPut(wm, Head(stats).Weapon, Head(stats).Kills),
                   Tail(stats))

\* Later records overwriting the kills of a weapon.
PutWeapons(wm, stats) == WeaponMapOf(wm, stats)

RECURSIVE AddWeapons(_, _)
\* acc.weaponMap[ws.Weapon] += ws.Kills over the WeaponStats of a record.
AddWeapons(wm, stats) ==
  IF stats = <<>> THEN wm
  ELSE AddWeapons(MapAdd(wm, Head(stats).Weapon, Head(stats).Kills),
                  Tail(stats))

\* The mergedPlayer the first record of a name is entered with.
SeedMerged(p) ==
  [ID |-> p.ID, Name |-> p.Name, Side |-> p.Side,
   KillCount |-> p.KillCount, DeathCount |-> p.DeathCount,
   TeamKillCount |-> p.TeamKillCount,
   weaponMap |-> WeaponMapOf(EmptyMap, p.WeaponStats)]

\* A later record of a name replacing what was merged before.
ReplaceMerged(acc, p) == SeedMerged(p)

\* A later record of a name: the counters and the weapon kills are added.
AddMerged(acc, p) ==
  [acc EXCEPT !.KillCount = @ + p.KillCount,
              !.DeathCount = @ + p.DeathCount,
              !.TeamKillCount = @ + p.TeamKillCount,
              !.weaponMap = AddWeapons(@, p.WeaponStats)]

\* A merge loop keyed by the lowercased name.
MergeRecordFolded(m, p) ==
  IF ToLower(p.Name) \notin DOMAIN m
    THEN MapPut(m, ToLower(p.Name), SeedMerged(p))
    ELSE [m EXCEPT ![ToLower(p.Name)] = AddMerged(@, p)]

\* One iteration of the merge loop of lines 270-297.
MergeRecord(m, p) ==
  IF p.Name \notin DOMAIN m
    THEN MapPut(m, p.Name, SeedMerged(p))
    ELSE [m EXCEPT ![p.Name] = AddMerged(@, p)]

RECURSIVE MergePlayers(_, _)
\* The merge loop over the records of one file.
MergePlayers(m, ps) ==
  IF ps = <<>> THEN m
  ELSE MergePlayers(MergeRecord(m, Head(ps)), Tail(ps))

RECURSIVE MergeResults(_, _)
\* The per-file results merged one file after the other, in the order given
\* (the sequential merge after wg.Wait of the earlier variant of the
\* pipeline).
MergeResults(m, results) ==
  IF results = <<>> THEN m
  ELSE MergeResults(MergePlayers(m, Head(results)), Tail(results))

(***************************************************************************)
(* State.  The pipeline run (SpecPipeline) and the cache (Spec) are two    *)
(* state machines over one set of variables; each leaves the other's       *)
(* variables as they are.                                                  *)
(***************************************************************************)
VARIABLES
  \* ---- one run of processAllPlayerEvents ----
  dataDir,     \* the entries of the data directory, sorted by name: a
               \* sequence of [name, doc]
  allFiles,    \* what filepath.Glob returns: a sequence of [name, doc],
               \* doc naming the capture the file holds
  blacklist,   \* the blacklist argument
  files,       \* the paths kept by the filter
  ppc,         \* the caller: "glob", "wait", "returned"
  wpc,         \* each worker goroutine's position
  players,     \* each worker's result of processPlayerEvents
  next,        \* each worker's index i into players in the merge loop
  sem,         \* the workers holding a slot of the semaphore channel
  mu,          \* the worker holding the merge mutex, or 0
  merged,      \* the shared merge map: name -> mergedPlayer
  processed,   \* the atomic counter
  wg,          \* the WaitGroup counter
  lockOrder,   \* the workers in the order they took the merge mutex
  result,      \* what the run returned: [err, stats], or NoResult
  \* ---- the PlayerCache over the directory allFiles and blacklist ----
  built,       \* c.built
  allStats,    \* c.allStats: a slice header [nil, g], g its backing array
  byName,      \* c.byName: [nil, m], m: lowercased name -> &stats[i]
  heap,        \* the backing arrays the builds allocated, by allocation
  rwWriter,    \* c.mu: the goroutine holding the write lock, or NoProc
  rwReaders,   \* c.mu: the goroutines holding the read lock
  cpc,         \* each goroutine's position in its call
  op,          \* each goroutine's current call: [name, q]
  ret,         \* what each goroutine's last finished call returned
  calls,       \* the calls each goroutine has made
  builds,      \* executions of processAllPlayerEvents started since
               \* construction or the last Invalidate
  failed,      \* those of them that returned an error
  awaited,     \* the readers whose latest call was blocked on c.mu.Lock()
               \* when a build attempt failed
  \* ---- one run of processPlayerEvents ----
  path,        \* the capture document the path names
  dec,         \* the decoder's position: [pc, field, item]
  pmap,        \* playerMap: entity id -> playerAcc
  out          \* what the run returned: [err, players, returned]

pipeVars ==
  <<dataDir, allFiles, blacklist, files, ppc, wpc, players, next, sem, mu, merged,
    processed, wg, lockOrder, result>>

cacheVars ==
  <<built, allStats, byName, heap, rwWriter, rwReaders, cpc, op, ret, calls,
    builds, failed, awaited>>

decVars == <<path, dec, pmap, out>>

NoResult == [err |-> FALSE, stats |-> <<>>, returned |-> FALSE]

Workers == 1..Len(files)

PipeInit ==
  /\ dataDir \in { Listing([i \in 1..NumFiles |->
                                [name |-> FileName(i), doc |-> d[i]]]) :
                     d \in [1..NumFiles -> PipelineDocs] }
                   \cup { Listing(<<>>) }
  /\ allFiles = Glob(dataDir)
  /\ blacklist \in Blacklists
  /\ files = <<>>
  /\ ppc = "glob"
  /\ wpc = <<>>
  /\ players = <<>>
  /\ next = <<>>
  /\ sem = {}
  /\ mu = 0
  /\ merged = EmptyMap
  /\ processed = 0
  /\ wg = 0
  /\ lockOrder = <<>>
  /\ result = NoResult

\* filepath.Glob fails: the run returns the error (lines 218-221).
GlobFails ==
  /\ ppc = "glob"
  /\ ppc' = "returned"
  /\ result' = [err |-> TRUE, stats |-> <<>>, returned |-> TRUE]
  /\ UNCHANGED <<dataDir, allFiles, blacklist, files, wpc, players, next, sem, mu,
                 merged, processed, wg, lockOrder>>
  /\ UNCHANGED <<cacheVars, decVars>>

\* Lines 218-255: the glob, the blacklist filter, and one goroutine started
\* per kept file, each counted in the WaitGroup.
StartWorkers ==
  /\ ppc = "glob"
  /\ files' = FilterFiles(allFiles, blacklist)
  /\ wpc' = [w \in 1..Len(files') |-> "acquire"]
  /\ players' = [w \in 1..Len(files') |-> <<>>]
  /\ next' = [w \in 1..Len(files') |-> 0]
  /\ wg' = Len(files')
  /\ ppc' = "wait"
  /\ UNCHANGED <<dataDir, allFiles, blacklist, sem, mu, merged, processed, lockOrder,
                 result>>
  /\ UNCHANGED <<cacheVars, decVars>>

\* A send on the channel that never blocks.
AcquireUnbounded(w) ==
  /\ wpc[w] = "acquire"
  /\ sem' = sem \cup {w}
  /\ wpc' = [wpc EXCEPT ![w] = "process"]
  /\ UNCHANGED <<dataDir, allFiles, blacklist, files, ppc, players, next, mu, merged,
                 processed, wg, lockOrder, result>>
  /\ UNCHANGED <<cacheVars, decVars>>

\* sem <- struct{}{} : blocks while every slot is taken.
Acquire(w) ==
  /\ wpc[w] = "acquire"
  /\ Cardinality(sem) < NumCPU
  /\ sem' = sem \cup {w}
  /\ wpc' = [wpc EXCEPT ![w] = "process"]
  /\ UNCHANGED <<dataDir, allFiles, blacklist, files, ppc, players, next, mu, merged,
                 processed, wg, lockOrder, result>>
  /\ UNCHANGED <<cacheVars, decVars>>

\* A file that fails making the whole run return its error.
ProcessAborts(w) ==
  /\ wpc[w] = "process"
  /\ \E r \in ResultsOf[files[w].doc] : r.err
  /\ processed' = processed + 1
  /\ wpc' = [wpc EXCEPT ![w] = "release"]
  /\ ppc' = "returned"
  /\ result' = [err |-> TRUE, stats |-> <<>>, returned |-> TRUE]
  /\ UNCHANGED <<dataDir, allFiles, blacklist, files, players, next, sem, mu,
                 merged, wg, lockOrder>>
  /\ UNCHANGED <<cacheVars, decVars>>

\* An error path that returns without giving the slot back.
ProcessFailsKeepsSlot(w) ==
  /\ wpc[w] = "process"
  /\ \E r \in ResultsOf[files[w].doc] : r.err
  /\ processed' = processed + 1
  /\ wpc' = [wpc EXCEPT ![w] = "wgdone"]
  /\ UNCHANGED <<dataDir, allFiles, blacklist, files, ppc, players, next, sem, mu,
                 merged, wg, lockOrder, result>>
  /\ UNCHANGED <<cacheVars, decVars>>

\* processPlayerEvents(filePath) returns an error: logged, counted, return.
ProcessFails(w) ==
  /\ wpc[w] = "process"
  /\ \E r \in ResultsOf[files[w].doc] : r.err
  /\ processed' = processed + 1
  /\ wpc' = [wpc EXCEPT ![w] = "release"]
  /\ UNCHANGED <<dataDir, allFiles, blacklist, files, ppc, players, next, sem, mu,
                 merged, wg, lockOrder, result>>
  /\ UNCHANGED <<cacheVars, decVars>>

\* processPlayerEvents(filePath) returns the players of the file.
Process(w) ==
  /\ wpc[w] = "process"
  /\ \E r \in ResultsOf[files[w].doc] :
       /\ ~r.err
       /\ players' = [players EXCEPT ![w] = r.players]
  /\ wpc' = [wpc EXCEPT ![w] = "lock"]
  /\ UNCHANGED <<dataDir, allFiles, blacklist, files, ppc, next, sem, mu, merged,
                 processed, wg, lockOrder, result>>
  /\ UNCHANGED <<cacheVars, decVars>>

\* A mutex granted while another worker holds it.
LockMergeUnguarded(w) ==
  /\ wpc[w] = "lock"
  /\ mu' = w
  /\ next' = [next EXCEPT ![w] = 1]
  /\ lockOrder' = Append(lockOrder, w)
  /\ wpc' = [wpc EXCEPT ![w] = "merge"]
  /\ UNCHANGED <<dataDir, allFiles, blacklist, files, ppc, players, sem, merged,
                 processed, wg, result>>
  /\ UNCHANGED <<cacheVars, decVars>>

\* mu.Lock()
LockMerge(w) ==
  /\ wpc[w] = "lock"
  /\ mu = 0
  /\ mu' = w
  /\ next' = [next EXCEPT ![w] = 1]
  /\ lockOrder' = Append(lockOrder, w)
  /\ wpc' = [wpc EXCEPT ![w] = "merge"]
  /\ UNCHANGED <<dataDir, allFiles, blacklist, files, ppc, players, sem, merged,
                 processed, wg, result>>
  /\ UNCHANGED <<cacheVars, decVars>>

\* One iteration of the merge loop, under the mutex.
Merge(w) ==
  /\ wpc[w] = "merge"
  /\ next[w] <= Len(players[w])
  /\ merged' = MergeRecord(merged, players[w][next[w]])
  /\ next' = [next EXCEPT ![w] = @ + 1]
  /\ UNCHANGED <<dataDir, allFiles, blacklist, files, ppc, wpc, players, sem, mu,
                 processed, wg, lockOrder, result>>
  /\ UNCHANGED <<cacheVars, decVars>>

\* mu.Unlock() at the end of the merge loop.
UnlockMerge(w) ==
  /\ wpc[w] = "merge"
  /\ next[w] > Len(players[w])
  /\ mu' = 0
  /\ wpc' = [wpc EXCEPT ![w] = "count"]
  /\ UNCHANGED <<dataDir, allFiles, blacklist, files, ppc, players, next, sem, merged,
                 processed, wg, lockOrder, result>>
  /\ UNCHANGED <<cacheVars, decVars>>

\* n := processed.Add(1), and the progress log.
Count(w) ==
  /\ wpc[w] = "count"
  /\ processed' = processed + 1
  /\ wpc' = [wpc EXCEPT ![w] = "release"]
  /\ UNCHANGED <<dataDir, allFiles, blacklist, files, ppc, players, next, sem, mu,
                 merged, wg, lockOrder, result>>
  /\ UNCHANGED <<cacheVars, decVars>>

\* The deferred <-sem.
Release(w) ==
  /\ wpc[w] = "release"
  /\ sem' = sem \ {w}
  /\ wpc' = [wpc EXCEPT ![w] = "wgdone"]
  /\ UNCHANGED <<dataDir, allFiles, blacklist, files, ppc, players, next, mu, merged,
                 processed, wg, lockOrder, result>>
  /\ UNCHANGED <<cacheVars, decVars>>

\* The deferred wg.Done().
Done(w) ==
  /\ wpc[w] = "wgdone"
  /\ wg' = wg - 1
  /\ wpc' = [wpc EXCEPT ![w] = "done"]
  /\ UNCHANGED <<dataDir, allFiles, blacklist, files, ppc, players, next, sem, mu,
                 merged, processed, lockOrder, result>>
  /\ UNCHANGED <<cacheVars, decVars>>

\* The merged records collected without waiting for the workers.
CollectEarly ==
  /\ ppc = "wait"
  /\ \E l \in SortedSummaries(merged) :
       result' = [err |-> FALSE, stats |-> l, returned |-> TRUE]
  /\ ppc' = "returned"
  /\ UNCHANGED <<dataDir, allFiles, blacklist, files, wpc, players, next, sem, mu,
                 merged, processed, wg, lockOrder>>
  /\ UNCHANGED <<cacheVars, decVars>>

\* wg.Wait() returns; lines 308-325 collect and sort the merged records.
Collect ==
  /\ ppc = "wait"
  /\ wg = 0
  /\ \E l \in SortedSummaries(merged) :
       result' = [err |-> FALSE, stats |-> l, returned |-> TRUE]
  /\ ppc' = "returned"
  /\ UNCHANGED <<dataDir, allFiles, blacklist, files, wpc, players, next, sem, mu,
                 merged, processed, wg, lockOrder>>
  /\ UNCHANGED <<cacheVars, decVars>>

(***************************************************************************)
(* processAllPlayerEvents as one call: every list a run can return for a   *)
(* directory, over the orders in which the workers take the merge mutex    *)
(* and the lists processPlayerEvents can return.                           *)
(***************************************************************************)
PipelineOutcomes(all, bl) ==
  LET fs == FilterFiles(all, bl)
      W == 1..Len(fs)
      rs == { c \in [W -> UNION { ProcessPlayerEvents(Content(fs[w].doc)) : w \in W }] :
                \A w \in W : c[w] \in ProcessPlayerEvents(Content(fs[w].doc)) }
      maps == { MergeResults(EmptyMap, [i \in 1..Len(o) |-> c[o[i]].players]) :
                  o \in Perms(W), c \in rs }
  IN UNION { SortedSummaries(m) : m \in maps }

(***************************************************************************)
(* PlayerCache (player.go 332-431).                                        *)
(***************************************************************************)
vars ==
  <<dataDir, allFiles, blacklist, files, ppc, wpc, players, next, sem, mu, merged,
    processed, wg, lockOrder, result,
    built, allStats, byName, heap, rwWriter, rwReaders, cpc, op, ret, calls,
    builds, failed, awaited,
    path, dec, pmap, out>>

Readers == {"r1", "r2"}
Invalidators == {"inv"}
Procs == Readers \cup Invalidators
NoProc == "none"

\* The names GetByName is called with: a full name, a fragment, no name.
Queries == { Bob, <<"b", "b">>, <<"g">> }

\* The data directories a cache is constructed over.
CacheDirs ==
  { << [name |-> FileName(1), doc |-> "DocA"] >>,
    << [name |-> FileName(1), doc |-> "DocA"],
       [name |-> FileName(2), doc |-> "DocC"] >>,
    << [name |-> FileName(2), doc |-> "DocB"] >> }

\* A nil slice, a nil map, a nil *PlayerEventSummary.
NilRef == [nil |-> TRUE, g |-> 0, i |-> 0]
NilMap == [nil |-> TRUE, m |-> EmptyMap]
\* The slice over backing array g; the pointer &stats[i] into it.
SliceRef(g) == [nil |-> FALSE, g |-> g, i |-> 0]
PtrRef(g, i) == [nil |-> FALSE, g |-> g, i |-> i]

NoOp == [name |-> "none", q |-> <<>>]
NoRet == [name |-> "none", q |-> <<>>, err |-> FALSE, val |-> NilRef]

\* The fields of the cache a build or an invalidation assigns.
CacheFields == [built |-> built, allStats |-> allStats, byName |-> byName]

\* The pipeline variables while no run of SpecPipeline is modelled.
PipeIdle ==
  /\ files = <<>>
  /\ ppc = "idle"
  /\ wpc = <<>>
  /\ players = <<>>
  /\ next = <<>>
  /\ sem = {}
  /\ mu = 0
  /\ merged = EmptyMap
  /\ processed = 0
  /\ wg = 0
  /\ lockOrder = <<>>
  /\ result = NoResult

\* NewPlayerCache(dataDir, blacklist): nothing built, the lock free.
CacheNew ==
  /\ built = FALSE
  /\ allStats = NilRef
  /\ byName = NilMap
  /\ heap = <<>>
  /\ rwWriter = NoProc
  /\ rwReaders = {}
  /\ cpc = [p \in Procs |-> "idle"]
  /\ op = [p \in Procs |-> NoOp]
  /\ ret = [p \in Procs |-> NoRet]
  /\ calls = [p \in Procs |-> 0]
  /\ builds = 0
  /\ failed = 0
  /\ awaited = {}

\* The variables of a processPlayerEvents run while none is modelled.
DecIdle ==
  /\ path = DocBad
  /\ dec = [pc |-> "idle", field |-> 0, item |-> 0]
  /\ pmap = EmptyMap
  /\ out = [err |-> FALSE, players |-> <<>>, returned |-> FALSE]

Init ==
  /\ dataDir \in CacheDirs
  /\ allFiles = Glob(dataDir)
  /\ blacklist \in Blacklists
  /\ PipeIdle
  /\ CacheNew
  /\ DecIdle

RECURSIVE IndexByName(_, _, _, _)
\* Lines 374-377: byName[strings.ToLower(stats[i].Name)] = &stats[i], for i
\* in order; a later record of the same lowercased name takes the key.
IndexByName(m, stats, g, i) ==
  IF i > Len(stats) THEN m
  ELSE IndexByName(MapPut(m, ToLower(stats[i].Name), PtrRef(g, i)),
                   stats, g, i + 1)

\* The backing array of the previous build taken again for the new result.
ReusedBacking(h) == IF Len(h) > 0 THEN Len(h) ELSE 1

\* result := make([]PlayerEventSummary, 0, len(merged)): a new backing
\* array for every run.
NewBacking(h) == Len(h) + 1

\* The heap with stats stored in backing array g.
Store(h, g, stats) ==
  IF g > Len(h) THEN Append(h, stats) ELSE [h EXCEPT ![g] = stats]

\* A failed build that went on to the assignments with the nil result.
AssignedOnFailure(c) ==
  [built |-> TRUE, allStats |-> NilRef, byName |-> [nil |-> FALSE, m |-> EmptyMap]]

\* Lines 370-372: on an error ensureBuilt returns before it assigns.
AfterFailedBuild(c) == c

\* Lines 379-381: the assignments of a successful build.
AfterBuild(c, g, stats) ==
  [built |-> TRUE,
   allStats |-> SliceRef(g),
   byName |-> [nil |-> FALSE, m |-> IndexByName(EmptyMap, stats, g, 1)]]

\* An invalidation that leaves the fields as they are.
KeptOnInvalidate(c) == c

\* Lines 426-428: Invalidate drops the references.
AfterInvalidate(c) ==
  [built |-> FALSE, allStats |-> NilRef, byName |-> NilMap]

\* A build started whatever the flag says.
BuildAlways(b) == TRUE

\* Line 362, the double check under the write lock: build only if not built.
MustBuild(b) == ~b

\* A lookup by substring only: any key containing the query, else nil.
LookupContaining(bn, playerName) ==
  LET normalised == ToLower(playerName)
      hits == { bn.m[key] : key \in { k \in DOMAIN bn.m : Contains(k, normalised) } }
  IN IF hits # {} THEN hits ELSE { [nil |-> TRUE, g |-> 0, i |-> 0] }

\* Lines 406-420: the exact match, else any key containing the query, else
\* nil.  A nil map has no keys.
Lookup(bn, playerName) ==
  LET normalised == ToLower(playerName)
      hits == { bn.m[key] : key \in { k \in DOMAIN bn.m : Contains(k, normalised) } }
  IN IF normalised \in DOMAIN bn.m THEN { bn.m[normalised] }
     ELSE IF hits # {} THEN hits
     ELSE { NilRef }

\* A reader goroutine calls GetAll() or GetByName(q).
Call(p) ==
  /\ p \in Readers
  /\ cpc[p] = "idle"
  /\ calls[p] < MaxCalls
  /\ \E o \in {[name |-> "GetAll", q |-> <<>>]}
              \cup { [name |-> "GetByName", q |-> q] : q \in Queries } :
       op' = [op EXCEPT ![p] = o]
  /\ ret' = [ret EXCEPT ![p] = NoRet]
  /\ calls' = [calls EXCEPT ![p] = @ + 1]
  /\ awaited' = awaited \ {p}
  /\ cpc' = [cpc EXCEPT ![p] = "fast_rlock"]
  /\ UNCHANGED <<built, allStats, byName, heap, rwWriter, rwReaders, builds,
                 failed>>
  /\ UNCHANGED <<pipeVars, decVars>>

\* ensureBuilt, line 350: c.mu.RLock()
FastRLock(p) ==
  /\ cpc[p] = "fast_rlock"
  /\ rwWriter = NoProc
  /\ rwReaders' = rwReaders \cup {p}
  /\ cpc' = [cpc EXCEPT ![p] = "fast_check"]
  /\ UNCHANGED <<built, allStats, byName, heap, rwWriter, op, ret, calls,
                 builds, failed, awaited>>
  /\ UNCHANGED <<pipeVars, decVars>>

\* ensureBuilt, lines 351-355: the fast path returns nil if built; the read
\* lock is released either way.
FastCheck(p) ==
  /\ cpc[p] = "fast_check"
  /\ rwReaders' = rwReaders \ {p}
  /\ cpc' = [cpc EXCEPT ![p] = IF built THEN "read_rlock" ELSE "slow_lock"]
  /\ UNCHANGED <<built, allStats, byName, heap, rwWriter, op, ret, calls,
                 builds, failed, awaited>>
  /\ UNCHANGED <<pipeVars, decVars>>

\* A write lock granted while another goroutine holds the lock.
SlowLockUnguarded(p) ==
  /\ cpc[p] = "slow_lock"
  /\ rwWriter' = p
  /\ cpc' = [cpc EXCEPT ![p] = "slow_check"]
  /\ UNCHANGED <<built, allStats, byName, heap, rwReaders, op, ret, calls,
                 builds, failed, awaited>>
  /\ UNCHANGED <<pipeVars, decVars>>

\* ensureBuilt, line 358: c.mu.Lock()
SlowLock(p) ==
  /\ cpc[p] = "slow_lock"
  /\ rwWriter = NoProc
  /\ rwReaders = {}
  /\ rwWriter' = p
  /\ cpc' = [cpc EXCEPT ![p] = "slow_check"]
  /\ UNCHANGED <<built, allStats, byName, heap, rwReaders, op, ret, calls,
                 builds, failed, awaited>>
  /\ UNCHANGED <<pipeVars, decVars>>

\* A return from the double check that leaves the write lock held.
SlowSkipKeepsLock(p) ==
  /\ cpc[p] = "slow_check"
  /\ ~MustBuild(built)
  /\ cpc' = [cpc EXCEPT ![p] = "read_rlock"]
  /\ UNCHANGED <<built, allStats, byName, heap, rwWriter, rwReaders, op, ret,
                 calls, builds, failed, awaited>>
  /\ UNCHANGED <<pipeVars, decVars>>

\* ensureBuilt, lines 362-364: built in the meantime, return nil (and the
\* deferred Unlock).
SlowSkip(p) ==
  /\ cpc[p] = "slow_check"
  /\ ~MustBuild(built)
  /\ rwWriter' = NoProc
  /\ cpc' = [cpc EXCEPT ![p] = "read_rlock"]
  /\ UNCHANGED <<built, allStats, byName, heap, rwReaders, op, ret, calls,
                 builds, failed, awaited>>
  /\ UNCHANGED <<pipeVars, decVars>>

\* ensureBuilt, lines 366-369: processAllPlayerEvents is called.
BuildStart(p) ==
  /\ cpc[p] = "slow_check"
  /\ MustBuild(built)
  /\ builds' = builds + 1
  /\ cpc' = [cpc EXCEPT ![p] = "build"]
  /\ UNCHANGED <<built, allStats, byName, heap, rwWriter, rwReaders, op, ret,
                 calls, failed, awaited>>
  /\ UNCHANGED <<pipeVars, decVars>>

\* processAllPlayerEvents returns an error: ensureBuilt returns it (and the
\* deferred Unlock), and GetAll / GetByName return it to the caller.
BuildFails(p) ==
  /\ cpc[p] = "build"
  /\ LET c == AfterFailedBuild(CacheFields)
     IN /\ built' = c.built
        /\ allStats' = c.allStats
        /\ byName' = c.byName
  /\ rwWriter' = NoProc
  /\ ret' = [ret EXCEPT ![p] = [name |-> op[p].name, q |-> op[p].q,
                                err |-> TRUE, val |-> NilRef]]
  /\ failed' = failed + 1
  /\ awaited' = awaited \cup { r \in Readers : cpc[r] = "slow_lock" }
  /\ op' = [op EXCEPT ![p] = NoOp]
  /\ cpc' = [cpc EXCEPT ![p] = "idle"]
  /\ UNCHANGED <<heap, rwReaders, calls, builds>>
  /\ UNCHANGED <<pipeVars, decVars>>

\* processAllPlayerEvents returns stats: lines 374-379 index them in a
\* local map and assign c.allStats.
BuildDone(p) ==
  /\ cpc[p] = "build"
  /\ \E stats \in PipelineOutcomes(allFiles, blacklist) :
       LET g == NewBacking(heap)
           c == AfterBuild(CacheFields, g, stats)
       IN /\ heap' = Store(heap, g, stats)
          /\ allStats' = c.allStats
  /\ cpc' = [cpc EXCEPT ![p] = "assign_byname"]
  /\ UNCHANGED <<built, byName, rwWriter, rwReaders, op, ret, calls, builds,
                 failed, awaited>>
  /\ UNCHANGED <<pipeVars, decVars>>

\* ensureBuilt, line 380: c.byName = byName, the index of the stats just
\* assigned.
AssignByName(p) ==
  /\ cpc[p] = "assign_byname"
  /\ byName' = AfterBuild(CacheFields, allStats.g, heap[allStats.g]).byName
  /\ cpc' = [cpc EXCEPT ![p] = "assign_built"]
  /\ UNCHANGED <<built, allStats, heap, rwWriter, rwReaders, op, ret, calls,
                 builds, failed, awaited>>
  /\ UNCHANGED <<pipeVars, decVars>>

\* ensureBuilt, lines 381-384: c.built = true, return nil (and the deferred
\* Unlock).
AssignBuilt(p) ==
  /\ cpc[p] = "assign_built"
  /\ built' = AfterBuild(CacheFields, allStats.g, heap[allStats.g]).built
  /\ rwWriter' = NoProc
  /\ cpc' = [cpc EXCEPT ![p] = "read_rlock"]
  /\ UNCHANGED <<allStats, byName, heap, rwReaders, op, ret, calls, builds,
                 failed, awaited>>
  /\ UNCHANGED <<pipeVars, decVars>>

\* A read lock granted while a writer holds the lock.
ReadRLockUnguarded(p) ==
  /\ cpc[p] = "read_rlock"
  /\ rwReaders' = rwReaders \cup {p}
  /\ cpc' = [cpc EXCEPT ![p] = "read"]
  /\ UNCHANGED <<built, allStats, byName, heap, rwWriter, op, ret, calls,
                 builds, failed, awaited>>
  /\ UNCHANGED <<pipeVars, decVars>>

\* GetAll line 392 / GetByName line 403: c.mu.RLock()
ReadRLock(p) ==
  /\ cpc[p] = "read_rlock"
  /\ rwWriter = NoProc
  /\ rwReaders' = rwReaders \cup {p}
  /\ cpc' = [cpc EXCEPT ![p] = "read"]
  /\ UNCHANGED <<built, allStats, byName, heap, rwWriter, op, ret, calls,
                 builds, failed, awaited>>
  /\ UNCHANGED <<pipeVars, decVars>>

\* GetAll lines 393-394: return c.allStats, nil (and the deferred RUnlock).
ReadAll(p) ==
  /\ cpc[p] = "read"
  /\ op[p].name = "GetAll"
  /\ ret' = [ret EXCEPT ![p] = [name |-> "GetAll", q |-> <<>>,
                                err |-> FALSE, val |-> allStats]]
  /\ rwReaders' = rwReaders \ {p}
  /\ op' = [op EXCEPT ![p] = NoOp]
  /\ cpc' = [cpc EXCEPT ![p] = "idle"]
  /\ UNCHANGED <<built, allStats, byName, heap, rwWriter, calls, builds,
                 failed, awaited>>
  /\ UNCHANGED <<pipeVars, decVars>>

\* GetByName lines 404-420: the lookup (and the deferred RUnlock).
ReadByName(p) ==
  /\ cpc[p] = "read"
  /\ op[p].name = "GetByName"
  /\ \E v \in Lookup(byName, op[p].q) :
       ret' = [ret EXCEPT ![p] = [name |-> "GetByName", q |-> op[p].q,
                                  err |-> FALSE, val |-> v]]
  /\ rwReaders' = rwReaders \ {p}
  /\ op' = [op EXCEPT ![p] = NoOp]
  /\ cpc' = [cpc EXCEPT ![p] = "idle"]
  /\ UNCHANGED <<built, allStats, byName, heap, rwWriter, calls, builds,
                 failed, awaited>>
  /\ UNCHANGED <<pipeVars, decVars>>

\* Another goroutine calls Invalidate() (line 424).
InvalidateCall(p) ==
  /\ p \in Invalidators
  /\ cpc[p] = "idle"
  /\ calls[p] < MaxInvalidations
  /\ calls' = [calls EXCEPT ![p] = @ + 1]
  /\ cpc' = [cpc EXCEPT ![p] = "invalidate_lock"]
  /\ UNCHANGED <<built, allStats, byName, heap, rwWriter, rwReaders, op, ret,
                 builds, failed, awaited>>
  /\ UNCHANGED <<pipeVars, decVars>>

\* Invalidate, line 425: c.mu.Lock()
InvalidateLock(p) ==
  /\ cpc[p] = "invalidate_lock"
  /\ rwWriter = NoProc
  /\ rwReaders = {}
  /\ rwWriter' = p
  /\ cpc' = [cpc EXCEPT ![p] = "invalidate"]
  /\ UNCHANGED <<built, allStats, byName, heap, rwReaders, op, ret, calls,
                 builds, failed, awaited>>
  /\ UNCHANGED <<pipeVars, decVars>>

\* Invalidate line 426: c.built = false
ClearBuilt(p) ==
  /\ cpc[p] = "invalidate"
  /\ built' = AfterInvalidate(CacheFields).built
  /\ cpc' = [cpc EXCEPT ![p] = "clear_stats"]
  /\ UNCHANGED <<allStats, byName, heap, rwWriter, rwReaders, op, ret, calls,
                 builds, failed, awaited>>
  /\ UNCHANGED <<pipeVars, decVars>>

\* Invalidate line 427: c.allStats = nil
ClearStats(p) ==
  /\ cpc[p] = "clear_stats"
  /\ allStats' = AfterInvalidate(CacheFields).allStats
  /\ cpc' = [cpc EXCEPT ![p] = "clear_byname"]
  /\ UNCHANGED <<built, byName, heap, rwWriter, rwReaders, op, ret, calls,
                 builds, failed, awaited>>
  /\ UNCHANGED <<pipeVars, decVars>>

\* Invalidate lines 428-429: c.byName = nil and the lock is released.
Invalidate(p) ==
  /\ cpc[p] = "clear_byname"
  /\ byName' = AfterInvalidate(CacheFields).byName
  /\ rwWriter' = NoProc
  /\ builds' = 0
  /\ failed' = 0
  /\ cpc' = [cpc EXCEPT ![p] = "idle"]
  /\ UNCHANGED <<built, allStats, heap, rwReaders, op, ret, calls, awaited>>
  /\ UNCHANGED <<pipeVars, decVars>>

Next ==
  \E p \in Procs :
    \/ Call(p)
    \/ FastRLock(p)
    \/ FastCheck(p)
    \/ SlowLock(p)
    \/ SlowSkip(p)
    \/ BuildStart(p)
    \/ BuildFails(p)
    \/ BuildDone(p)
    \/ AssignByName(p)
    \/ AssignBuilt(p)
    \/ ReadRLock(p)
    \/ ReadAll(p)
    \/ ReadByName(p)
    \/ InvalidateCall(p)
    \/ InvalidateLock(p)
    \/ ClearBuilt(p)
    \/ ClearStats(p)
    \/ Invalidate(p)

Spec == Init /\ [][Next]_vars

\* A step of goroutine p inside a call it has made.
StepInCall(p) ==
  \/ FastRLock(p)
  \/ FastCheck(p)
  \/ SlowLock(p)
  \/ SlowSkip(p)
  \/ BuildStart(p)
  \/ BuildFails(p)
  \/ BuildDone(p)
  \/ AssignByName(p)
  \/ AssignBuilt(p)
  \/ ReadRLock(p)
  \/ ReadAll(p)
  \/ ReadByName(p)
  \/ InvalidateLock(p)
  \/ ClearBuilt(p)
  \/ ClearStats(p)
  \/ Invalidate(p)

\* The scheduling of the cache's goroutines: a goroutine that can go on
\* inside its call does so, which includes that a build attempt returns and
\* that a goroutine blocked in RLock or Lock gets the lock once it stays
\* free.  Nothing makes a goroutine call.
CacheFairness == \A p \in Procs : WF_vars(StepInCall(p))

SpecFair == Init /\ [][Next]_vars /\ CacheFairness

(***************************************************************************)
(* One run of the pipeline, the cache left as constructed.                 *)
(***************************************************************************)
InitPipeline == PipeInit /\ CacheNew /\ DecIdle

NextPipeline ==
  \/ GlobFails
  \/ StartWorkers
  \/ Collect
  \/ \E w \in Workers : Acquire(w)
  \/ \E w \in Workers : ProcessFails(w)
  \/ \E w \in Workers : Process(w)
  \/ \E w \in Workers : LockMerge(w)
  \/ \E w \in Workers : Merge(w)
  \/ \E w \in Workers : UnlockMerge(w)
  \/ \E w \in Workers : Count(w)
  \/ \E w \in Workers : Release(w)
  \/ \E w \in Workers : Done(w)

SpecPipeline == InitPipeline /\ [][NextPipeline]_vars

\* A step of the goroutine started for the w-th file.
WorkerStep(w) ==
  /\ w \in Workers
  /\ \/ Acquire(w)
     \/ ProcessFails(w)
     \/ Process(w)
     \/ LockMerge(w)
     \/ Merge(w)
     \/ UnlockMerge(w)
     \/ Count(w)
     \/ Release(w)
     \/ Done(w)

\* The scheduling of a run: the caller and every goroutine it started go on
\* when they can, which includes that filepath.Glob and processPlayerEvents
\* return and that a goroutine blocked on the semaphore or the mutex gets it
\* once it stays free.
PipelineFairness ==
  /\ WF_vars(GlobFails \/ StartWorkers \/ Collect)
  /\ \A w \in 1..NumFiles : WF_vars(WorkerStep(w))

SpecPipelineFair == InitPipeline /\ [][NextPipeline]_vars /\ PipelineFairness

\* The same run over a directory of captures with same-named players.
InitPipelineTwins ==
  /\ dataDir \in { Listing([i \in 1..NumTwinFiles |->
                                [name |-> FileName(i), doc |-> d[i]]]) :
                     d \in [1..NumTwinFiles -> TwinDocs] }
  /\ allFiles = Glob(dataDir)
  /\ blacklist \in Blacklists
  /\ files = <<>>
  /\ ppc = "glob"
  /\ wpc = <<>>
  /\ players = <<>>
  /\ next = <<>>
  /\ sem = {}
  /\ mu = 0
  /\ merged = EmptyMap
  /\ processed = 0
  /\ wg = 0
  /\ lockOrder = <<>>
  /\ result = NoResult
  /\ CacheNew
  /\ DecIdle

SpecPipelineTwins == InitPipelineTwins /\ [][NextPipeline]_vars

(***************************************************************************)
(* One run of processPlayerEvents (player.go 57-211), one decoder step at  *)
(* a time, the pipeline and the cache left idle.                           *)
(***************************************************************************)
\* A position snapshot [x, y, dir, alive, name]: the fifth element is the
\* name slot; a snapshot may be shorter.
Snapshot(nameSlot) == JArr(<<JNum(0), JNum(0), JNum(0), JNum(1), nameSlot>>)
ShortSnapshot == JArr(<<JNum(0), JNum(0), JNum(0), JNum(1)>>)

\* The entity e with the position history ps.
WithPositions(e, ps) == [e EXCEPT !.positions = ps]

\* An entity one of whose fields holds a value of another type.
BadEntity ==
  [decodes |-> FALSE, type |-> "unit", id |-> 0, name |-> <<>>,
   side |-> "", isPlayer |-> 0, positions |-> <<>>]

\* Players 1 and 2 on one side, player 3 on the other, a vehicle, an AI
\* unit, and a vehicle flagged isPlayer.
Squad ==
  << Entity("unit", 1, Bob, "WEST", 1),
     Entity("unit", 2, Bobby, "WEST", 1),
     Entity("unit", 3, BobLower, "EAST", 1),
     Entity("vehicle", 4, Bob, "WEST", 0),
     Entity("unit", 5, Bobby, "WEST", 0),
     Entity("vehicle", 6, Bobby, "EAST", 1) >>

\* A player followed by an entity that does not decode.
SquadBad == << Entity("unit", 1, Bob, "WEST", 1), BadEntity >>

\* Player 1 was renamed to Bobby in its position history, the later
\* snapshots carrying an empty, a missing and an unparseable name slot;
\* player 2 has snapshots without any override; player 3 has no history.
Renamed ==
  << WithPositions(Entity("unit", 1, Bob, "WEST", 1),
                   << Snapshot(JStr(Bob)), Snapshot(JStr(Bobby)),
                      Snapshot(JStr(<<>>)), ShortSnapshot,
                      Snapshot(JNum(7)) >>),
     WithPositions(Entity("unit", 2, Bobby, "WEST", 1),
                   << Snapshot(JStr(<<>>)), ShortSnapshot >>),
     Entity("unit", 3, BobLower, "EAST", 1) >>

CaptureEntityLists == {Squad, SquadBad, Renamed}

\* A killed event whose cause tuple holds only the causer id.
KilledNoWeapon(victim, killer) ==
  JArr(<<JNum(10), JStr("killed"), JNum(victim), JArr(<<JNum(killer)>>),
         JNum(50)>>)

\* The events a capture of the model is made of: a team kill, a kill across
\* sides, a self-kill, an absent causer, a vehicle victim, an AI causer with
\* an absent victim, a weapon that is a number, a weapon that is null, a
\* cause tuple without weapon, an event of another type, a short event, and
\* an event that is no array.
EventForms ==
  { KilledEvent(2, 1, JStr("Rifle")),
    KilledEvent(3, 1, JStr("Rifle")),
    KilledEvent(1, 1, JStr("Pistol")),
    KilledEvent(1, 9, JStr("Rifle")),
    KilledEvent(4, 1, JStr("Pistol")),
    KilledEvent(9, 5, JStr("Rifle")),
    KilledEvent(2, 3, JNum(7)),
    KilledEvent(3, 2, JNull),
    KilledNoWeapon(2, 1),
    JArr(<<JNum(11), JStr("hit"), JNum(2), JArr(<<JNum(1), JStr("Rifle")>>)>>),
    JArr(<<JNum(12), JStr("killed"), JNum(2)>>),
    JObj }

\* The event lists of at most n events.
EventLists(n) == UNION { [1..k -> EventForms] : k \in 0..n }

\* The capture doc as a top-level array of its keys and values in turn.
AsArray(doc) == [doc EXCEPT !.top = "array"]

\* A capture that is a single number.
DocScalar ==
  [readable |-> TRUE, top |-> "scalar", cut |-> "none", fields |-> <<>>]

\* The stream of doc ending after its first n members, at the place cut.
Truncated(doc, n, cut) ==
  [doc EXCEPT !.fields = SubSeq(doc.fields, 1, n), !.cut = cut]

\* The captures whose top-level value is no object: arrays holding the
\* squad and one event at most, the empty array, a number.
NonObjectDocs ==
  { AsArray(Doc(Squad, evts)) : evts \in EventLists(1) }
    \cup { AsArray(Truncated(Doc(<<>>, <<>>), 0, "none")), DocScalar }

\* The captures whose stream ends early: after the opening brace, in or
\* after each member of a capture of the squad and one event at most.
TruncatedDocs ==
  { Truncated(Doc(Squad, evts), n, cut) :
      evts \in EventLists(1), n \in 0..3, cut \in {"member", "key"} }
    \cup { Truncated(Doc(Squad, evts), n, "value") :
             evts \in EventLists(1), n \in 1..3 }

\* Killed events one of whose fields holds a value of another type: the
\* type a number, the victim id a string, the cause tuple a string, the
\* causer id a string.
MalformedEvents ==
  { JArr(<<JNum(10), JNum(1), JNum(2), JArr(<<JNum(1), JStr("Rifle")>>), JNum(50)>>),
    JArr(<<JNum(10), JStr("killed"), JStr("2"), JArr(<<JNum(1), JStr("Rifle")>>),
           JNum(50)>>),
    JArr(<<JNum(10), JStr("killed"), JNum(2), JStr("1"), JNum(50)>>),
    JArr(<<JNum(10), JStr("killed"), JNum(2), JArr(<<JStr("1"), JStr("Rifle")>>),
           JNum(50)>>) }

\* The captures of the squad in which such an event stands before a kill of
\* player 2 by player 1, alone or after a kill of player 3 by player 1.
MalformedEventDocs ==
  { Doc(Squad, <<m, KilledEvent(2, 1, JStr("Rifle"))>>) : m \in MalformedEvents }
    \cup { Doc(Squad, << KilledEvent(3, 1, JStr("Rifle")), m,
                         KilledEvent(2, 1, JStr("Rifle")) >>) :
             m \in MalformedEvents }

\* The capture doc with its events member written before its entities
\* member.
EventsFirst(doc) ==
  [doc EXCEPT !.fields = <<doc.fields[1], doc.fields[3], doc.fields[2]>>]

\* The captures of the squad and two events at most whose events member
\* precedes the entities member.
EventsFirstDocs ==
  { EventsFirst(Doc(Squad, evts)) : evts \in EventLists(MaxEvents) }

\* The captures processPlayerEvents is run on.
CaptureDocs ==
  { Doc(ents, evts) : ents \in CaptureEntityLists, evts \in EventLists(MaxEvents) }
    \cup {DocBad} \cup NonObjectDocs \cup TruncatedDocs \cup MalformedEventDocs
    \cup EventsFirstDocs

NoOut == [err |-> FALSE, players |-> <<>>, returned |-> FALSE]
ErrOut == [err |-> TRUE, players |-> <<>>, returned |-> TRUE]

InitCapture ==
  /\ path \in CaptureDocs
  /\ dec = [pc |-> "open", field |-> 0, item |-> 0]
  /\ pmap = EmptyMap
  /\ out = NoOut
  /\ dataDir = <<>>
  /\ allFiles = <<>>
  /\ blacklist = <<>>
  /\ PipeIdle
  /\ CacheNew

\* The stream ends inside the value of the member the decoder is at.
CutInValue == dec.field = Len(path.fields) /\ path.cut = "value"

\* Lines 58-75: the file does not open, is no gzip stream, or holds no
\* first token.
OpenFails ==
  /\ dec.pc = "open"
  /\ ~path.readable
  /\ dec' = [dec EXCEPT !.pc = "returned"]
  /\ out' = ErrOut
  /\ UNCHANGED <<path, pmap>>
  /\ UNCHANGED <<pipeVars, cacheVars>>

\* Lines 58-81: the file opens and the first token is read, whatever
\* token it is: the error of dec.Token() is looked at, the token is not.
Open ==
  /\ dec.pc = "open"
  /\ path.readable
  /\ dec' = [pc |-> "key", field |-> 1, item |-> 0]
  /\ UNCHANGED <<path, pmap, out>>
  /\ UNCHANGED <<pipeVars, cacheVars>>

\* Lines 83-98, 123-127, 183-189: the next top-level key is read; the
\* entities or events array is entered, any other member is skipped.
ReadKey ==
  /\ dec.pc = "key"
  /\ dec.field <= Len(path.fields)
  /\ ~(CutInValue /\ path.fields[dec.field].key \notin {"entities", "events"})
  /\ dec' = CASE path.fields[dec.field].key = "entities" ->
                   [pc |-> "entities", field |-> dec.field, item |-> 1]
              [] path.fields[dec.field].key = "events" ->
                   [pc |-> "events", field |-> dec.field, item |-> 1]
              [] OTHER ->
                   [pc |-> "key", field |-> dec.field + 1, item |-> 0]
  /\ UNCHANGED <<path, pmap, out>>
  /\ UNCHANGED <<pipeVars, cacheVars>>

\* Lines 100-117: one entity is decoded and, if a player, entered.
ReadEntity ==
  /\ dec.pc = "entities"
  /\ dec.item <= Len(path.fields[dec.field].ents)
  /\ path.fields[dec.field].ents[dec.item].decodes
  /\ pmap' = AddEntity(pmap, path.fields[dec.field].ents[dec.item])
  /\ dec' = [dec EXCEPT !.item = @ + 1]
  /\ UNCHANGED <<path, out>>
  /\ UNCHANGED <<pipeVars, cacheVars>>

\* Lines 102-104: dec.Decode(&e) fails.
EntityFails ==
  /\ dec.pc = "entities"
  /\ dec.item <= Len(path.fields[dec.field].ents)
  /\ ~path.fields[dec.field].ents[dec.item].decodes
  /\ dec' = [dec EXCEPT !.pc = "returned"]
  /\ out' = ErrOut
  /\ UNCHANGED <<path, pmap>>
  /\ UNCHANGED <<pipeVars, cacheVars>>

\* Lines 118-121: the closing bracket of entities.
EndEntities ==
  /\ dec.pc = "entities"
  /\ dec.item > Len(path.fields[dec.field].ents)
  /\ ~CutInValue
  /\ dec' = [pc |-> "key", field |-> dec.field + 1, item |-> 0]
  /\ UNCHANGED <<path, pmap, out>>
  /\ UNCHANGED <<pipeVars, cacheVars>>

\* Lines 128-177: one event is decoded and, if a kill, counted.
ReadEvent ==
  /\ dec.pc = "events"
  /\ dec.item <= Len(path.fields[dec.field].evts)
  /\ ~UnmarshalArray(path.fields[dec.field].evts[dec.item]).err
  /\ pmap' = ApplyEvent(pmap,
               UnmarshalArray(path.fields[dec.field].evts[dec.item]).val)
  /\ dec' = [dec EXCEPT !.item = @ + 1]
  /\ UNCHANGED <<path, out>>
  /\ UNCHANGED <<pipeVars, cacheVars>>

\* Lines 130-132: dec.Decode(&rawEvent) fails.
EventFails ==
  /\ dec.pc = "events"
  /\ dec.item <= Len(path.fields[dec.field].evts)
  /\ UnmarshalArray(path.fields[dec.field].evts[dec.item]).err
  /\ dec' = [dec EXCEPT !.pc = "returned"]
  /\ out' = ErrOut
  /\ UNCHANGED <<path, pmap>>
  /\ UNCHANGED <<pipeVars, cacheVars>>

\* Lines 178-181: the closing bracket of events.
EndEvents ==
  /\ dec.pc = "events"
  /\ dec.item > Len(path.fields[dec.field].evts)
  /\ ~CutInValue
  /\ dec' = [pc |-> "key", field |-> dec.field + 1, item |-> 0]
  /\ UNCHANGED <<path, pmap, out>>
  /\ UNCHANGED <<pipeVars, cacheVars>>

\* Lines 84-87: dec.More() saw the comma and dec.Token() finds no key.
KeyFails ==
  /\ dec.pc = "key"
  /\ dec.field > Len(path.fields)
  /\ MoreAtEnd(path)
  /\ dec' = [dec EXCEPT !.pc = "returned"]
  /\ out' = ErrOut
  /\ UNCHANGED <<path, pmap>>
  /\ UNCHANGED <<pipeVars, cacheVars>>

\* Lines 183-188: the value of a member that is skipped ends early.
SkipFails ==
  /\ dec.pc = "key"
  /\ dec.field <= Len(path.fields)
  /\ CutInValue
  /\ path.fields[dec.field].key \notin {"entities", "events"}
  /\ dec' = [dec EXCEPT !.pc = "returned"]
  /\ out' = ErrOut
  /\ UNCHANGED <<path, pmap>>
  /\ UNCHANGED <<pipeVars, cacheVars>>

\* Lines 118-121 and 178-181: dec.More() is false where the stream ends, and
\* the dec.Token() for the closing bracket fails.
EndFails ==
  /\ \/ dec.pc = "entities" /\ dec.item > Len(path.fields[dec.field].ents)
     \/ dec.pc = "events" /\ dec.item > Len(path.fields[dec.field].evts)
  /\ CutInValue
  /\ dec' = [dec EXCEPT !.pc = "returned"]
  /\ out' = ErrOut
  /\ UNCHANGED <<path, pmap>>
  /\ UNCHANGED <<pipeVars, cacheVars>>

\* Lines 83 and 192-210: dec.More() is false; the players are collected and
\* sorted.
CollectPlayers ==
  /\ dec.pc = "key"
  /\ dec.field > Len(path.fields)
  /\ ~MoreAtEnd(path)
  /\ \E l \in SortedSummaries(pmap) :
       out' = [err |-> FALSE, players |-> l, returned |-> TRUE]
  /\ dec' = [dec EXCEPT !.pc = "returned"]
  /\ UNCHANGED <<path, pmap>>
  /\ UNCHANGED <<pipeVars, cacheVars>>

NextCapture ==
  \/ OpenFails
  \/ Open
  \/ ReadKey
  \/ ReadEntity
  \/ EntityFails
  \/ EndEntities
  \/ ReadEvent
  \/ EventFails
  \/ EndEvents
  \/ KeyFails
  \/ SkipFails
  \/ EndFails
  \/ CollectPlayers

SpecCapture == InitCapture /\ [][NextCapture]_vars

(***************************************************************************)
(* Claims about the cache, checked under Spec.                             *)
(***************************************************************************)
\* C1: every GetAll call that returns without error returns the aggregate
\* of one completed build of the directory, never the cleared (nil) slice,
\* whatever Invalidate calls and other readers run beside it.
GetAllReturnsBuiltAggregate ==
  \A p \in Readers :
    (ret[p].name = "GetAll" /\ ~ret[p].err) =>
      /\ ~ret[p].val.nil
      /\ heap[ret[p].val.g] \in PipelineOutcomes(allFiles, blacklist)

\* C2: GetByName(q) returns not-found (nil, nil) only when no record of the
\* archive aggregate matches q, exactly or as a substring, without regard
\* to case.
NotFoundOnlyIfNoMatch ==
  \A p \in Readers :
    (ret[p].name = "GetByName" /\ ~ret[p].err /\ ret[p].val.nil) =>
      \A stats \in PipelineOutcomes(allFiles, blacklist) :
        \A i \in 1..Len(stats) :
          ~Contains(ToLower(stats[i].Name), ToLower(ret[p].q))

\* C3: since construction or the last Invalidate, while no build has
\* failed, processAllPlayerEvents has been started at most once, and exactly
\* once when the cache is built: no build is in flight then, and the readers
\* that come to the double check find the cache built.
OneBuildPerInvalidation ==
  /\ builds - failed <= 1
  /\ built => /\ builds - failed = 1
              /\ \A p \in Readers : cpc[p] # "build"

\* A second reader, past the fast path, holds the write lock and finds the
\* cache built by the first.
WitnessSecondReaderSkips ==
  \E p \in Readers :
    /\ cpc[p] = "slow_check"
    /\ built
    /\ builds = 1
    /\ failed = 0

\* C4: a reader that was waiting for a build attempt that failed returns an
\* error, and starts no build of its own within that call.
AwaitersFailWithoutBuilding ==
  \A p \in awaited :
    /\ cpc[p] # "build"
    /\ cpc[p] = "idle" => ret[p].err

\* C5: a failed build leaves built, allStats and byName (and every returned
\* aggregate) as they were, with built false; the error and a nil value are
\* returned to the calling GetAll / GetByName; and a read that comes to the
\* double check after a failure starts the build again.
FailedBuildIsRetryable ==
  [][ \A p \in Readers :
        /\ (cpc[p] = "build" /\ failed' = failed + 1) =>
             /\ UNCHANGED <<built, allStats, byName, heap>>
             /\ ~built'
             /\ cpc'[p] = "idle"
             /\ ret'[p].name = op[p].name
             /\ ret'[p].err
             /\ ret'[p].val.nil
        /\ (failed > 0 /\ cpc[p] = "slow_check" /\ ~built /\ cpc'[p] # cpc[p]) =>
             cpc'[p] = "build"
    ]_vars

\* A build is in flight again after a build failed and its caller got the
\* error.
WitnessRetryAfterFailure ==
  /\ failed >= 1
  /\ ~built
  /\ \E p \in Readers : cpc[p] = "build"
  /\ \E q \in Readers : ret[q].err /\ ret[q].val.nil

\* C6: the cache starts not built; a build is started only by a reader
\* that finds the cache not built under the write lock; while built, a
\* reader passing either check goes on to read and starts no build; built
\* becomes false only in Invalidate, which clears the fields; built becomes
\* true only at the end of a build, with a result of the source files; and
\* after an Invalidate a reader passing the checks goes on to build.
CacheLifecycle ==
  /\ ~built
  /\ [][ /\ (builds' = builds + 1) =>
              /\ ~built
              /\ \E p \in Readers :
                   cpc[p] = "slow_check" /\ rwWriter = p /\ cpc'[p] = "build"
         /\ (built /\ ~built') =>
              \E i \in Invalidators : cpc[i] = "invalidate" /\ rwWriter = i
         /\ \A i \in Invalidators :
              (cpc[i] # "idle" /\ cpc'[i] = "idle") =>
                ~built' /\ allStats'.nil /\ byName'.nil
         /\ (~built /\ built') =>
              /\ \E p \in Readers :
                   /\ cpc[p] = "assign_built"
                   /\ rwWriter = p
                   /\ cpc'[p] = "read_rlock"
              /\ heap'[allStats'.g] \in PipelineOutcomes(allFiles, blacklist)
         /\ \A p \in Readers :
              /\ (built /\ cpc[p] \in {"fast_check", "slow_check"}
                    /\ cpc'[p] # cpc[p]) => cpc'[p] = "read_rlock"
              /\ (~built /\ cpc[p] = "fast_check" /\ cpc'[p] # cpc[p]) =>
                   cpc'[p] = "slow_lock"
              /\ (~built /\ cpc[p] = "slow_check" /\ cpc'[p] # cpc[p]) =>
                   cpc'[p] = "build"
       ]_vars

\* The cache is built again after an Invalidate: two builds have completed.
WitnessRebuiltAfterInvalidate ==
  /\ built
  /\ Len(heap) = 2
  /\ \E i \in Invalidators : calls[i] = 1 /\ cpc[i] = "idle"

\* C7: no step changes an aggregate a build has produced, so what GetAll or
\* GetByName returned stays as returned; Invalidate changes no aggregate,
\* and a build stores its result in a backing array no earlier aggregate
\* uses, with byName pointing into that array only.
ReturnedAggregatesUnchanged ==
  [][ /\ Len(heap') >= Len(heap)
      /\ \A g \in 1..Len(heap) : heap'[g] = heap[g]
      /\ (allStats' # allStats /\ ~allStats'.nil) =>
           allStats'.g \notin 1..Len(heap)
      /\ (byName' # byName /\ ~byName'.nil) =>
           /\ ~allStats'.nil
           /\ \A k \in DOMAIN byName'.m : byName'.m[k].g = allStats'.g
    ]_vars

\* A reader holds the aggregate of the first build while the cache, after an
\* Invalidate, holds that of a second one.
WitnessOldAggregateHeld ==
  /\ built
  /\ allStats.g = 2
  /\ \E p \in Readers :
       /\ ret[p].name = "GetAll"
       /\ ~ret[p].val.nil
       /\ ret[p].val.g = 1
       /\ heap[1] # <<>>

\* C26: a GetByName(q) that reads a built cache returns, without error, a
\* record whose lowercased name equals the lowercased q if the aggregate
\* holds one; else a record whose lowercased name contains the lowercased
\* q if the aggregate holds one; else nil.
ExactMatchFirst ==
  [][ \A p \in Readers :
        (cpc[p] = "read" /\ op[p].name = "GetByName" /\ built
           /\ cpc'[p] = "idle") =>
          LET recs == heap[allStats.g]
              q == ToLower(op[p].q)
              v == ret'[p].val
              exact == { i \in 1..Len(recs) : ToLower(recs[i].Name) = q }
              holding == { i \in 1..Len(recs) :
                             Contains(ToLower(recs[i].Name), q) }
          IN /\ ~ret'[p].err
             /\ exact # {} =>
                  ~v.nil /\ v.g = allStats.g /\ v.i \in exact
             /\ (exact = {} /\ holding # {}) =>
                  ~v.nil /\ v.g = allStats.g /\ v.i \in holding
             /\ holding = {} => v.nil
    ]_vars

\* GetByName("Bob") returned the record of Bob from an aggregate that
\* holds Bobby as well.
WitnessBobNotBobby ==
  \E p \in Readers :
    /\ ret[p].name = "GetByName"
    /\ ret[p].q = Bob
    /\ ~ret[p].err
    /\ ~ret[p].val.nil
    /\ heap[ret[p].val.g][ret[p].val.i].Name = Bob
    /\ \E i \in 1..Len(heap[ret[p].val.g]) : heap[ret[p].val.g][i].Name = Bobby

BuildResults ==
  [d \in CacheDirs |->
     [b \in Blacklists |-> PipelineOutcomes(Glob(d), b)]]

\* C30: while any goroutine holds the read lock, either built is false and
\* allStats and byName are both nil, or built is true, allStats is the
\* result of one completed run of processAllPlayerEvents over the directory
\* and byName maps the lowercased name of every record of allStats, and
\* nothing else, to a record of that same allStats bearing that name.
NeverPartiallyVisible ==
  rwReaders # {} =>
    \/ /\ ~built
       /\ allStats.nil
       /\ byName.nil
    \/ /\ built
       /\ ~allStats.nil
       /\ ~byName.nil
       /\ LET recs == heap[allStats.g]
          IN /\ recs \in BuildResults[dataDir][blacklist]
             /\ DOMAIN byName.m = { ToLower(recs[i].Name) : i \in 1..Len(recs) }
             /\ \A k \in DOMAIN byName.m :
                  /\ byName.m[k].g = allStats.g
                  /\ byName.m[k].i \in 1..Len(recs)
                  /\ ToLower(recs[byName.m[k].i].Name) = k

\* A reader holds the read lock of a cache that was built and that an
\* Invalidate, field by field, has cleared since this reader left
\* ensureBuilt.
WitnessReaderSeesCleared ==
  \E p \in Readers :
    /\ p \in rwReaders
    /\ cpc[p] = "read"
    /\ ~built
    /\ allStats.nil
    /\ byName.nil
    /\ Len(heap) >= 1
    /\ \E i \in Invalidators : calls[i] >= 1

\* C37: a GetByName(q) that reads a built cache whose aggregate holds a
\* record named exactly q returns, without error, a pointer to that very
\* record.
RetrievableByOwnName ==
  [][ \A p \in Readers :
        (cpc[p] = "read" /\ op[p].name = "GetByName" /\ built
           /\ cpc'[p] = "idle") =>
          \A i \in 1..Len(heap[allStats.g]) :
            heap[allStats.g][i].Name = op[p].q =>
              /\ ~ret'[p].err
              /\ ret'[p].val = PtrRef(allStats.g, i)
    ]_vars

(***************************************************************************)
(* Claims about the progress of the cache's calls, checked under SpecFair. *)
(***************************************************************************)
\* C35: every GetAll, GetByName and Invalidate call that has been made
\* returns: a goroutine inside a call is eventually outside it, and a
\* reader then has the result or the error of that call.
EveryCallReturns ==
  \A p \in Procs :
    (cpc[p] # "idle") ~>
      (cpc[p] = "idle" /\ (p \in Readers => ret[p].name # "none"))

\* An Invalidate waits for the write lock while one reader is building and
\* the other waits for the write lock as well.
WitnessThreeContendForLock ==
  \E p, q \in Readers : \E i \in Invalidators :
    /\ p # q
    /\ cpc[p] = "build"
    /\ cpc[q] = "slow_lock"
    /\ cpc[i] = "invalidate_lock"

(***************************************************************************)
(* Claims about the pipeline, checked under SpecPipeline.                  *)
(***************************************************************************)
RECURSIVE SumKills(_)
\* The sum of the Kills of a WeaponStats list.
SumKills(stats) ==
  IF stats = <<>> THEN 0 ELSE Head(stats).Kills + SumKills(Tail(stats))

\* doc with its events cut after the first k.
FirstEvents(doc, k) ==
  [doc EXCEPT !.fields =
     [i \in 1..Len(doc.fields) |->
        [key |-> doc.fields[i].key,
         ents |-> doc.fields[i].ents,
         evts |-> IF k >= Len(doc.fields[i].evts)
                    THEN doc.fields[i].evts
                    ELSE SubSeq(doc.fields[i].evts, 1, k)]]]

RECURSIVE EventCount(_)
\* The number of events of the longest events member among fields.
EventCount(fields) ==
  IF fields = <<>> THEN 0
  ELSE LET n == EventCount(Tail(fields))
       IN IF Len(Head(fields).evts) > n THEN Len(Head(fields).evts) ELSE n

\* C8: in every player record killCount is the sum of the kills of its
\* weapon entries: in the player map after every number of events of each
\* capture of the directory (the captures are fixed once the run starts, so
\* this is evaluated where the run starts), in every per-capture result, in
\* the merge map after every merged record, and in the returned aggregate.
KillCountIsWeaponSum ==
  /\ ppc = "glob" =>
       \A f \in 1..Len(allFiles) :
       \A k \in 0..EventCount(Content(allFiles[f].doc).fields) :
         LET d == DecodeCapture(FirstEvents(Content(allFiles[f].doc), k))
         IN \A id \in DOMAIN d.pm :
              d.pm[id].KillCount = MapSum(d.pm[id].weaponMap)
  /\ \A w \in DOMAIN players : \A i \in 1..Len(players[w]) :
       players[w][i].KillCount = SumKills(players[w][i].WeaponStats)
  /\ \A n \in DOMAIN merged :
       merged[n].KillCount = MapSum(merged[n].weaponMap)
  /\ \A i \in 1..Len(result.stats) :
       result.stats[i].KillCount = SumKills(result.stats[i].WeaponStats)

\* The aggregate holds a record merged from two captures, with kills by
\* three weapons.
WitnessMergedKills ==
  /\ ppc = "returned"
  /\ \E i \in 1..Len(result.stats) :
       /\ result.stats[i].KillCount = 5
       /\ Len(result.stats[i].WeaponStats) = 3

\* The counters and weapon kills of every name of a merge map.
Totals(m) ==
  [n \in DOMAIN m |->
     [KillCount |-> m[n].KillCount, DeathCount |-> m[n].DeathCount,
      TeamKillCount |-> m[n].TeamKillCount, weaponMap |-> m[n].weaponMap]]

\* C9: whatever the order in which the workers merged their results, the
\* merged totals of every name (killCount, deathCount, teamKillCount, each
\* weapon's kills) are those of merging the same results in file order.
MergedTotalsOrderIndependent ==
  (ppc = "returned" /\ ~result.err) =>
    Totals(merged) = Totals(MergeResults(EmptyMap, players))

\* A later file was merged before an earlier one, both with records of Bob.
WitnessMergedOutOfOrder ==
  /\ ppc = "returned"
  /\ Len(lockOrder) >= 2
  /\ lockOrder[1] > lockOrder[2]
  /\ Bob \in DOMAIN merged
  /\ merged[Bob].KillCount = 5

\* C10: whatever the order in which the workers merged their results, the
\* whole merged records, id and side included, are those of merging the
\* same results in file order.
MergedRecordsOrderIndependent ==
  (ppc = "returned" /\ ~result.err) =>
    merged = MergeResults(EmptyMap, players)

\* The records of l are in descending order of killCount, and in each the
\* weapon entries are in descending order of kills, every entry with a
\* positive count and no weapon in two entries.
RecordsOrdered(l) ==
  /\ \A i \in 1..(Len(l) - 1) : l[i].KillCount >= l[i + 1].KillCount
  /\ \A i \in 1..Len(l) :
       LET ws == l[i].WeaponStats
       IN /\ \A j \in 1..(Len(ws) - 1) : ws[j].Kills >= ws[j + 1].Kills
          /\ \A j \in 1..Len(ws) : ws[j].Kills > 0
          /\ \A j, k \in 1..Len(ws) : ws[j].Weapon = ws[k].Weapon => j = k

\* C24: every per-capture result and the aggregate returned are ordered by
\* killCount descending, with the weapon entries of every record ordered by
\* kills descending, positive, one per weapon; the entries of a record of
\* the aggregate are exactly the weapons of the merged record of its name,
\* each with its merged kills.
OutputsAreOrdered ==
  /\ \A w \in DOMAIN players : RecordsOrdered(players[w])
  /\ RecordsOrdered(result.stats)
  /\ \A i \in 1..Len(result.stats) :
       LET ws == result.stats[i].WeaponStats
           wm == merged[result.stats[i].Name].weaponMap
       IN /\ { ws[j].Weapon : j \in 1..Len(ws) } = DOMAIN wm
          /\ \A j \in 1..Len(ws) : ws[j].Kills = wm[ws[j].Weapon]

\* The aggregate returned holds Bob before a record of fewer kills, Bob's
\* kills being by three weapons, the pistol with the fewest kills last.
WitnessOrderedAggregate ==
  /\ ppc = "returned"
  /\ Len(result.stats) >= 2
  /\ result.stats[1].Name = Bob
  /\ result.stats[1].KillCount > result.stats[2].KillCount
  /\ Len(result.stats[1].WeaponStats) = 3
  /\ result.stats[1].WeaponStats[1].Kills = 2
  /\ result.stats[1].WeaponStats[3] = [Weapon |-> "Pistol", Kills |-> 1]

\* A record without its place in the list and the order of its weapons.
RecordOf(p) ==
  [ID |-> p.ID, Name |-> p.Name, Side |-> p.Side,
   KillCount |-> p.KillCount, DeathCount |-> p.DeathCount,
   TeamKillCount |-> p.TeamKillCount,
   weaponMap |-> WeaponMapOf(EmptyMap, p.WeaponStats)]

\* The name ends in ".gz"; the name without these three characters.
EndsInGz(name) ==
  /\ Len(name) >= 3
  /\ name[Len(name) - 2] = "."
  /\ name[Len(name) - 1] = "g"
  /\ name[Len(name)] = "z"
Stem(name) == SubSeq(name, 1, Len(name) - 3)

\* The entry of the data directory is a capture file that no fragment of
\* the blacklist excludes.
IsKept(e) ==
  /\ EndsInGz(e.name)
  /\ \A b \in 1..Len(blacklist) :
       ~Contains(ToLower(Stem(e.name)), ToLower(blacklist[b]))

InSlot == { w \in Workers : wpc[w] \in {"process", "lock", "merge", "count", "release"} }

\* C31: at most NumCPU workers of a run are between acquiring and releasing
\* a slot of the semaphore, they are the holders of the slots, and so at
\* most NumCPU captures are being decoded or merged at once.
AtMostNumCPUInSlot ==
  /\ Cardinality(InSlot) <= NumCPU
  /\ sem = InSlot
  /\ Cardinality({ w \in Workers : wpc[w] \in {"process", "lock", "merge"} })
       <= NumCPU

\* Every slot is taken by a worker decoding or merging while another
\* worker, its goroutine started, waits for a slot.
WitnessWorkerWaitsForSlot ==
  /\ Cardinality(sem) = NumCPU
  /\ \A w \in sem : wpc[w] \in {"process", "lock", "merge"}
  /\ \E w \in Workers : wpc[w] = "acquire"

\* C32: a step of a worker changes the merge map only while that worker
\* holds the merge mutex and is in the merge loop; the mutex is held exactly
\* by the worker in the merge loop, so by one worker at a time and by none
\* that is in processPlayerEvents or waits for a slot.
MergeOnlyUnderMutex ==
  /\ [](/\ \A w \in Workers : (mu = w) <=> (wpc[w] = "merge")
        /\ mu \in Workers \cup {0}
        /\ Cardinality({ w \in Workers : wpc[w] = "merge" }) <= 1)
  /\ [][ merged' # merged =>
           \E w \in Workers :
             /\ mu = w
             /\ mu' = w
             /\ wpc[w] = "merge"
             /\ next[w] \in 1..Len(players[w])
             /\ merged' = MergeRecord(merged, players[w][next[w]])
             /\ \A v \in Workers \ {w} : wpc'[v] = wpc[v]
       ]_vars

\* One worker has merged a record and holds the mutex while another, holding
\* the other slot, is in processPlayerEvents.
WitnessDecodeBesideMerge ==
  \E w, v \in Workers :
    /\ w # v
    /\ mu = w
    /\ next[w] >= 2
    /\ merged # EmptyMap
    /\ wpc[v] = "process"
    /\ {w, v} \subseteq sem

\* C33: when the run has returned an aggregate every worker has finished;
\* every worker whose file was read took the merge mutex exactly once and
\* merged every record of its result, no other worker took it, so the merge
\* map is the merge of exactly those results, each once; and the aggregate
\* is collected from that map.  No worker is left to change the map.
AggregateAfterBarrier ==
  (ppc = "returned" /\ ~result.err) =>
    /\ wg = 0
    /\ mu = 0
    /\ \A w \in Workers :
         /\ wpc[w] = "done"
         /\ Cardinality({ i \in 1..Len(lockOrder) : lockOrder[i] = w })
              = IF DecodeCapture(Content(files[w].doc)).err THEN 0 ELSE 1
         /\ ~DecodeCapture(Content(files[w].doc)).err =>
              next[w] = Len(players[w]) + 1
    /\ merged = MergeResults(EmptyMap,
                  [i \in 1..Len(lockOrder) |-> players[lockOrder[i]]])
    /\ result.stats \in SortedSummaries(merged)

\* A run over three files returned: one file could not be read, the other
\* two were merged, the later one first.
WitnessBarrierPassed ==
  /\ ppc = "returned"
  /\ ~result.err
  /\ Len(files) = 3
  /\ \E w \in Workers : files[w].doc = "DocBad"
  /\ Len(lockOrder) = 2
  /\ lockOrder[1] > lockOrder[2]
  /\ result.stats # <<>>

(***************************************************************************)
(* Claims about the termination of a run, checked under SpecPipelineFair.  *)
(***************************************************************************)
\* The run has returned and, if it returned an aggregate, every goroutine
\* started has held a slot, given it back and finished, whether its file was
\* read or not: no slot and no mutex is held, the WaitGroup is at zero, and
\* processed is the number of the capture files of the directory that the
\* blacklist does not exclude.
ReturnedClean ==
  /\ ppc = "returned"
  /\ result.returned
  /\ ~result.err =>
       /\ sem = {}
       /\ mu = 0
       /\ wg = 0
       /\ \A w \in Workers : wpc[w] = "done"
       /\ DOMAIN wpc = 1..Len(files)
       /\ processed = Len(files)
       /\ processed = Len(SelectSeq(dataDir, IsKept))

\* C36: every run of processAllPlayerEvents comes to return, with every
\* goroutine finished and nothing held, and stays so.
PipelineTerminates == <>[]ReturnedClean

\* A run over three files returned after the first two, which could not be
\* read, had held both slots while the third waited for one.
WitnessReturnedAfterFailures ==
  /\ ppc = "returned"
  /\ ~result.err
  /\ Len(files) = 3
  /\ files[1].doc = "DocBad"
  /\ files[2].doc = "DocBad"
  /\ files[3].doc # "DocBad"
  /\ Len(lockOrder) = 1
  /\ processed = 3
  /\ sem = {}

(***************************************************************************)
(* Claims about the merge by name and about files that fail, checked under *)
(* SpecPipelineTwins.                                                      *)
(***************************************************************************)
\* The names of a list of records.
NamesOf(recs) == { recs[i].Name : i \in 1..Len(recs) }

\* The files of the run that processPlayerEvents reads without error.
GoodFiles == SelectSeq(files, LAMBDA f : ~DecodeCapture(Content(f.doc)).err)

\* The merge, in file order, of one result of each of those files.
MergeOfGoodFiles ==
  MergeResults(EmptyMap,
    [i \in 1..Len(GoodFiles) |->
       (CHOOSE r \in ProcessPlayerEvents(Content(GoodFiles[i].doc)) : TRUE).players])

\* C13: the run returns an error only when the glob failed, before any
\* file was looked at; every goroutine that has not finished is counted in
\* the WaitGroup, and only a goroutine holding players goes on to the
\* merge; a run that got past the glob returns without error, the
\* goroutine of every file whose processing failed has finished without
\* ever taking the merge mutex (lockOrder keeps every taker), and the
\* aggregate holds the totals of the merge of the files that were read
\* without error.
FailedFileIsSkipped ==
  /\ result.err => (files = <<>> /\ wpc = <<>> /\ processed = 0)
  /\ ppc = "wait" =>
       wg = Cardinality({ w \in Workers : wpc[w] # "done" })
  /\ \A w \in Workers :
       wpc[w] \in {"lock", "merge", "count"} => players[w] # <<>>
  /\ (ppc = "returned" /\ files # <<>>) =>
       /\ ~result.err
       /\ \A w \in Workers :
            DecodeCapture(Content(files[w].doc)).err =>
              /\ players[w] = <<>>
              /\ wpc[w] = "done"
              /\ \A i \in 1..Len(lockOrder) : lockOrder[i] # w
       /\ Totals(merged) = Totals(MergeOfGoodFiles)
       /\ NamesOf(result.stats) = DOMAIN merged

\* A run over a directory with a file that failed and a readable one has
\* returned the players of the readable one.
WitnessBadFileSkipped ==
  /\ ppc = "returned"
  /\ ~result.err
  /\ \E w \in Workers : files[w].doc = "DocBad" /\ wpc[w] = "done"
  /\ \E w \in Workers : files[w].doc = "DocTwin"
  /\ Len(result.stats) = 2
  /\ merged[Bob].KillCount = 1

RECURSIVE MergedSoFar(_)
\* The per-capture records merged so far, worker after worker in the
\* order given: of each worker the records before its index next.
MergedSoFar(order) ==
  IF order = <<>> THEN <<>>
  ELSE SubSeq(players[Head(order)], 1, next[Head(order)] - 1)
         \o MergedSoFar(Tail(order))

RECURSIVE SumField(_, _, _)
\* The sum of the counter f over the records of recs named n.
SumField(recs, n, f) ==
  IF recs = <<>> THEN 0
  ELSE (IF Head(recs).Name = n THEN Head(recs)[f] ELSE 0)
         + SumField(Tail(recs), n, f)

RECURSIVE KillsWith(_, _)
\* The kills a WeaponStats list holds for the weapon wpn.
KillsWith(stats, wpn) ==
  IF stats = <<>> THEN 0
  ELSE (IF Head(stats).Weapon = wpn THEN Head(stats).Kills ELSE 0)
         + KillsWith(Tail(stats), wpn)

RECURSIVE SumWeapon(_, _, _)
\* The kills with the weapon wpn over the records of recs named n.
SumWeapon(recs, n, wpn) ==
  IF recs = <<>> THEN 0
  ELSE (IF Head(recs).Name = n THEN KillsWith(Head(recs).WeaponStats, wpn)
        ELSE 0)
         + SumWeapon(Tail(recs), n, wpn)

WeaponsOf(recs) ==
  UNION { { recs[i].WeaponStats[j].Weapon : j \in 1..Len(recs[i].WeaponStats) } :
            i \in 1..Len(recs) }
CounterFields == {"KillCount", "DeathCount", "TeamKillCount"}

\* C11: at every point of a run, for every name each counter of the merged
\* record is the sum of that counter over the per-capture records of that
\* name merged so far, several of one file included, and each weapon's
\* merged kills are the sum of that weapon's kills over those records; a
\* weapon none of them holds has no entry.  When the run has returned, the
\* records merged are all the records of every file that was processed
\* without error.
MergedCountersAreSums ==
  /\ ppc = "returned" /\ ~result.err =>
       \A w \in Workers :
         ~DecodeCapture(Content(files[w].doc)).err =>
           /\ \E i \in 1..Len(lockOrder) : lockOrder[i] = w
           /\ next[w] = Len(players[w]) + 1
           /\ \E r \in ProcessPlayerEvents(Content(files[w].doc)) :
                r.players = players[w]
  /\ LET recs == MergedSoFar(lockOrder)
     IN \A n \in NamesOf(recs) :
       /\ n \in DOMAIN merged
       /\ \A f \in CounterFields : merged[n][f] = SumField(recs, n, f)
       /\ \A wpn \in WeaponsOf(recs) \cup DOMAIN merged[n].weaponMap :
            /\ wpn \in DOMAIN merged[n].weaponMap <=>
                 \E i \in 1..Len(recs) :
                   /\ recs[i].Name = n
                   /\ \E j \in 1..Len(recs[i].WeaponStats) :
                        recs[i].WeaponStats[j].Weapon = wpn
            /\ wpn \in DOMAIN merged[n].weaponMap =>
                 merged[n].weaponMap[wpn] = SumWeapon(recs, n, wpn)

\* Two files that each report Bob with killCount 1, in two records named
\* Bob each, were merged to Bob with killCount 2.
WitnessTwoFilesOneKillEach ==
  /\ ppc = "returned"
  /\ Len(lockOrder) = 2
  /\ \A w \in {lockOrder[1], lockOrder[2]} :
       /\ SumField(players[w], Bob, "KillCount") = 1
       /\ Cardinality({ i \in 1..Len(players[w]) : players[w][i].Name = Bob }) = 2
  /\ merged[Bob].KillCount = 2
  /\ merged[Bob].DeathCount = 2
  /\ merged[Bob].weaponMap["Rifle"] = 2

\* The names of the players of the files of the run that decode.
NamesInFiles ==
  UNION { LET d == DecodeCapture(Content(files[w].doc))
          IN IF d.err THEN {} ELSE { d.pm[id].Name : id \in DOMAIN d.pm } :
            w \in Workers }

\* C12: the merge map holds one record under each case-sensitive name merged
\* so far and under no other key, and the aggregate returned holds exactly
\* one record for each distinct name of a player of a file processed
\* without error, and no record of another name.
OneRecordPerName ==
  /\ DOMAIN merged = NamesOf(MergedSoFar(lockOrder))
  /\ \A n \in DOMAIN merged : merged[n].Name = n
  /\ ppc = "returned" /\ ~result.err =>
       /\ NamesOf(result.stats) = NamesInFiles
       /\ Len(result.stats) = Cardinality(NamesInFiles)

\* Two files with two players named Bob and one named bob each were merged
\* into an aggregate of two records, Bob and bob.
WitnessBobAndBobApart ==
  /\ ppc = "returned"
  /\ Len(lockOrder) >= 2
  /\ Len(result.stats) = 2
  /\ NamesOf(result.stats) = {Bob, BobLower}

(***************************************************************************)
(* Claims about one capture, checked under SpecCapture.  An event is read  *)
(* here as the capture format describes it, [frame, type, victim,          *)
(* [causer, weapon], distance], not through the decoding of the code.      *)
(***************************************************************************)
\* The decoder is about to read an event; that event.
ReadingEvent ==
  /\ dec.pc = "events"
  /\ dec.item <= Len(path.fields[dec.field].evts)
CurrentEvent == path.fields[dec.field].evts[dec.item]

\* ev is a killed event with a victim id and a cause tuple led by a causer
\* id; its cause tuple has a weapon slot.
IsKilled(ev) ==
  /\ ev.k = "arr"
  /\ Len(ev.a) >= 4
  /\ ev.a[2].k = "str"
  /\ ev.a[2].s = "killed"
  /\ ev.a[3].k = "num"
  /\ ev.a[4].k = "arr"
  /\ Len(ev.a[4].a) >= 1
  /\ ev.a[4].a[1].k = "num"
HasWeaponSlot(ev) == Len(ev.a[4].a) >= 2
VictimOf(ev) == ev.a[3].n
CauserOf(ev) == ev.a[4].a[1].n
WeaponSlot(ev) == ev.a[4].a[2]

\* The kills player id has with the weapon wpn in the player map pm.
KillsBy(pm, id, wpn) ==
  IF wpn \in DOMAIN pm[id].weaponMap THEN pm[id].weaponMap[wpn] ELSE 0

UnparseableWeaponIsNA ==
  [][ LET ev == CurrentEvent
          c == CauserOf(ev)
      IN (/\ ReadingEvent
          /\ IsKilled(ev)
          /\ HasWeaponSlot(ev)
          /\ WeaponSlot(ev).k # "str"
          /\ c \in DOMAIN pmap) =>
           /\ pmap'[c].KillCount = pmap[c].KillCount + 1
           /\ KillsBy(pmap', c, "N/A") = KillsBy(pmap, c, "N/A") + 1
           /\ DOMAIN pmap'[c].weaponMap = DOMAIN pmap[c].weaponMap \cup {"N/A"}
    ]_vars

\* Player 3 killed player 2 with a weapon given as a number.
WitnessNumberWeapon ==
  /\ dec.pc = "events"
  /\ dec.item = 2
  /\ path.fields[dec.field].evts[1] = KilledEvent(2, 3, JNum(7))
  /\ {2, 3} \subseteq DOMAIN pmap
  /\ pmap[3].KillCount = 1
  /\ pmap[3].weaponMap = [w \in {"N/A"} |-> 1]
  /\ pmap[2].DeathCount = 1

\* C18: reading a kill event of a tracked causer whose cause tuple holds
\* only the causer id adds one to the causer's killCount and to its kills
\* with the weapon "N/A", and one to the deathCount of a tracked victim.
AbsentWeaponStillCounted ==
  [][ LET ev == CurrentEvent
          c == CauserOf(ev)
          v == VictimOf(ev)
      IN (/\ ReadingEvent
          /\ IsKilled(ev)
          /\ ~HasWeaponSlot(ev)
          /\ c \in DOMAIN pmap) =>
           /\ pmap'[c].KillCount = pmap[c].KillCount + 1
           /\ KillsBy(pmap', c, "N/A") = KillsBy(pmap, c, "N/A") + 1
           /\ (v \in DOMAIN pmap /\ v # c) =>
                pmap'[v].DeathCount = pmap[v].DeathCount + 1
    ]_vars

RECURSIVE EntitiesBefore(_, _)
\* The entities of the entities members among the first k - 1 of fields.
EntitiesBefore(fields, k) ==
  IF k <= 1 \/ fields = <<>> THEN <<>>
  ELSE (IF Head(fields).key = "entities" THEN Head(fields).ents ELSE <<>>)
         \o EntitiesBefore(Tail(fields), k - 1)

\* The entities the decoder has read so far; all entities of the capture.
EntitiesRead ==
  EntitiesBefore(path.fields, dec.field)
    \o (IF dec.pc = "entities"
          THEN SubSeq(path.fields[dec.field].ents, 1, dec.item - 1)
          ELSE <<>>)
AllEntities == EntitiesBefore(path.fields, Len(path.fields) + 1)

\* The entity is a unit flagged as a player; the ids of such entities.
IsPlayerEntity(e) == e.type = "unit" /\ e.isPlayer = 1
PlayerIds(ents) ==
  { ents[i].id : i \in { j \in 1..Len(ents) : IsPlayerEntity(ents[j]) } }

\* C19: at every point of a run that has not failed, the ids of the player
\* map are exactly the ids of the entities read so far whose type is "unit"
\* and whose isPlayer is 1, so that vehicles and non-player units are
\* unknown ids to every event; the result holds one record for each of
\* those entities of the capture and no other.
OnlyUnitPlayersTracked ==
  ~out.err =>
    /\ DOMAIN pmap = PlayerIds(EntitiesRead)
    /\ \A id \in DOMAIN pmap : pmap[id].ID = id
    /\ out.returned =>
         /\ { out.players[i].ID : i \in 1..Len(out.players) }
              = PlayerIds(AllEntities)
         /\ Len(out.players) = Cardinality(PlayerIds(AllEntities))

\* A run over the squad of three players, a vehicle, an AI unit and a
\* vehicle flagged isPlayer, with events naming the vehicle and the AI
\* unit, returned three records.
WitnessVehiclesDropped ==
  /\ out.returned
  /\ ~out.err
  /\ AllEntities = Squad
  /\ Len(path.fields) >= 3
  /\ path.fields[3].evts =
       << KilledEvent(4, 1, JStr("Pistol")), KilledEvent(9, 5, JStr("Rifle")) >>
  /\ Len(out.players) = 3
  /\ out.players[1].ID = 1
  /\ out.players[1].KillCount = 1

\* C20: the name of every record of the result is the last non-empty
\* parseable name override of the position history of its entity, or the
\* entity's static name where the history holds none.
NameIsLastOverride ==
  (out.returned /\ ~out.err) =>
    \A i \in 1..Len(out.players) :
      \A j \in 1..Len(AllEntities) :
        (IsPlayerEntity(AllEntities[j])
           /\ AllEntities[j].id = out.players[i].ID) =>
          out.players[i].Name = DisplayName(AllEntities[j])

(***************************************************************************)
(* Claims about events that are passed over, checked under SpecCapture.    *)
(***************************************************************************)
\* ev is an array (null reads as the empty array) of fewer than four
\* elements, or its type is not the string "killed", or its victim id is no
\* number, or its cause tuple is no array, or the causer id that leads the
\* tuple is no number; null is accepted where a number or an array is
\* expected.
IsPassedOver(ev) ==
  LET a == IF ev.k = "arr" THEN ev.a ELSE <<>>
  IN /\ ev.k \in {"arr", "null"}
     /\ \/ Len(a) < 4
        \/ a[2] # JStr("killed")
        \/ a[3].k \notin {"num", "null"}
        \/ a[4].k \notin {"arr", "null"}
        \/ /\ a[4].k = "arr"
           /\ Len(a[4].a) >= 1
           /\ a[4].a[1].k \notin {"num", "null"}

\* doc without the events that are passed over.
WithoutPassedOver(doc) ==
  [doc EXCEPT !.fields =
     [i \in 1..Len(doc.fields) |->
        [doc.fields[i] EXCEPT
           !.evts = SelectSeq(@, LAMBDA e : ~IsPassedOver(e))]]]

\* C34: reading an event of fewer than four elements, of a type other than
\* "killed", or with a type, victim id, cause tuple or causer id that does
\* not decode leaves the player map as it was, returns nothing, and moves
\* the decoder to the next event; and a run that returns without error
\* returns what the same capture without those events yields.
PassedOverEventChangesNothing ==
  /\ [][ (ReadingEvent /\ IsPassedOver(CurrentEvent)) =>
           /\ pmap' = pmap
           /\ out' = out
           /\ dec' = [dec EXCEPT !.item = @ + 1]
       ]_vars
  /\ []((out.returned /\ ~out.err) =>
          out.players \in
            SortedSummaries(ReadFields(EmptyMap, WithoutPassedOver(path).fields).pm))

\* A run returned over a capture whose second event has a victim id that is
\* a string, between two kills by player 1, both of which were counted.
WitnessKillAfterMalformedEvent ==
  /\ out.returned
  /\ ~out.err
  /\ Len(path.fields) = 3
  /\ Len(path.fields[3].evts) = 3
  /\ path.fields[3].evts[2].k = "arr"
  /\ path.fields[3].evts[2].a[3] = JStr("2")
  /\ IsPassedOver(path.fields[3].evts[2])
  /\ out.players[1].ID = 1
  /\ out.players[1].KillCount = 2
  /\ \E i \in 1..Len(out.players) :
       out.players[i].ID = 2 /\ out.players[i].DeathCount = 1

(***************************************************************************)
(* Claims about documents that are malformed, checked under SpecCapture.   *)
(***************************************************************************)
\* C21: a run on a capture that opens and whose top-level value is no
\* object (an array, a scalar) returns an error.
NonObjectDocumentFails ==
  (out.returned /\ path.readable /\ path.top # "object") => out.err

\* C22: a run on a capture whose stream ends before the closing brace of the
\* top-level object returns an error, wherever the stream ends.
TruncatedStreamFails ==
  (out.returned /\ path.readable /\ path.cut # "none") => out.err

\* The decoder is about to read an entity; that entity.
ReadingEntity ==
  /\ dec.pc = "entities"
  /\ dec.item <= Len(path.fields[dec.field].ents)
CurrentEntity == path.fields[dec.field].ents[dec.item]

\* C23: an entity with a field of the wrong type, and an event that is no
\* array, are passed over: the decoder goes on to the next record of the
\* array with the player map as it was, and the run does not return.
MalformedRecordIsSkipped ==
  [][ ((ReadingEntity /\ ~CurrentEntity.decodes)
         \/ (ReadingEvent /\ CurrentEvent.k # "arr")) =>
        /\ dec' = [dec EXCEPT !.item = @ + 1]
        /\ pmap' = pmap
        /\ out' = out
    ]_vars

(***************************************************************************)
(* Claims about the order of the output, checked under SpecCapture.        *)
(***************************************************************************)
\* C25: the list a run returns is the only list the collecting and sorting
\* of lines 192-208 can return for the player map of the capture: another
\* run over the same capture returns the same sequence of records, with
\* the same sequence of weapon entries in each.
OutputOrderIsDetermined ==
  (out.returned /\ ~out.err) =>
    \A l \in SortedSummaries(pmap) : l = out.players

(***************************************************************************)
(* Claims about the two variants of processPlayerEvents, checked under     *)
(* SpecCapture.                                                            *)
(***************************************************************************)
\* C27: the streaming run and the buffered processPlayerEvents agree on
\* every capture: one returns an error exactly if the other does, and the
\* records the run returns are, as a set, the records of the player map of
\* the buffered variant, with the same names, sides, counters and weapon
\* counts.
VariantsAgree ==
  out.returned =>
    LET b == BufferedCapture(path)
    IN /\ out.err <=> b.err
       /\ (~out.err /\ ~b.err) =>
            { RecordOf(out.players[i]) : i \in 1..Len(out.players) }
              = { b.pm[id] : id \in DOMAIN b.pm }

(***************************************************************************)
(* Claims about the order of the top-level keys, checked under SpecCapture *)
(***************************************************************************)
\* C38: a run on a capture whose events member precedes its entities
\* member returns what the run on the same capture with the entities first
\* returns: an error exactly if that one does, and records with the same
\* names, sides, counters and weapon counts for every player.
KeyOrderIrrelevant ==
  (out.returned /\ path \in EventsFirstDocs) =>
    LET d == DecodeCapture(EventsFirst(path))
    IN /\ out.err <=> d.err
       /\ (~out.err /\ ~d.err) =>
            { RecordOf(out.players[i]) : i \in 1..Len(out.players) }
              = { d.pm[id] : id \in DOMAIN d.pm }

====
